---- MODULE Spec2Model ----
(***************************************************************************)
(* Schema-aware query and caching layer of backend-microservice:           *)
(*   - the cache facade (services/cacheService.js over config/redis.js),   *)
(*   - the schema catalog and the CRUD layer (utils/database.js),          *)
(*   - the transaction / soft-timeout wrapper (config/database.js,         *)
(*     utils/database.js).                                                 *)
(* Six specifications share the variables: SpecCache (cache facade,        *)
(* schema catalog, invalidation), SpecTx (transaction wrapper, bulkInsert),*)
(* SpecDb (single-statement CRUD against PostgreSQL), SpecBuild (the       *)
(* statements the CRUD functions and the query builder emit), SpecRace     *)
(* (concurrent requests interleaving at their awaits) and SpecFind         *)
(* (sequences of findById calls over the record cache).                    *)
(***************************************************************************)
EXTENDS Integers, Sequences, FiniteSets, TLC

VARIABLES
    store,        \* the Redis keyspace: key -> stored JSON value
    tagsOf,       \* ghost: key -> tags of the latest completed set of that key
    clean,        \* ghost: only completed cacheService.set calls happened so far
    schemaCache,  \* the process-local Map of utils/database.js
    dbData,       \* table -> number of committed writes (the data a read returns)
    last          \* outcome of the last completed call

cacheVars == <<store, tagsOf, clean, schemaCache, dbData, last>>

VARIABLES
    txIn,           \* the call: caller, items, batchSize, timeout, isolationLevel
    txPc,           \* the await the transaction is suspended at
    loopI,          \* bulk loop: offset i of the current batch
    loopJ,          \* bulk loop: position of the current item in its batch
    issued,         \* statements answered on the transaction's connection
    txRows,         \* rows written inside the open transaction (uncommitted)
    committed,      \* rows committed to the table
    connHeld,       \* the transaction holds its pool connection
    releases,       \* number of client.release() calls
    txOutcome,      \* how the promise of transaction() settled
    timer,          \* the soft-timeout timer: none, armed, fired, cleared
    isResolved,     \* executeTransaction's isResolved flag
    settleCalls,    \* number of resolve()/reject() calls on the caller's promise
    callerOutcome,  \* how the caller's promise settled
    bulk,           \* the bulk call after its await: waiting, returned, threw; invalidated
    peakConnections \* ghost: most pool connections the operation held at one moment

txVars == <<txIn, txPc, loopI, loopJ, issued, txRows, committed, connHeld, releases,
            txOutcome, timer, isResolved, settleCalls, callerOutcome, bulk,
            peakConnections>>

VARIABLES
    rows,         \* table users: id -> row (exists, email, version, updated_at, deleted_at)
    now,          \* the clock: NOW() and new Date()
    call,         \* caller -> the call it has in flight (statement sent, not yet answered)
    result,       \* caller -> outcome of its last completed call
    calls,        \* number of CRUD calls made
    deleteCalls,  \* ghost: id -> completed soft-delete deleteRecord calls aimed at the row
    firstDelete,  \* ghost: id -> NOW() of the first of those calls (0: none yet)
    defaultDeleted \* ghost: id -> a deleteRecord(users, {id}) without softDelete completed

sqlVars == <<rows, now, call, result, calls, deleteCalls, firstDelete, defaultDeleted>>

VARIABLES
    built         \* the last call of a statement-building function: arguments and outcome

VARIABLES
    proc,         \* concurrent request -> the call it runs and the await it is at
    expires,      \* Redis key -> clock value at which its TTL runs out
    preClear,     \* ghost: holders of a schema read before the last clearSchemaCache began
    raceNow,      \* the clock of the concurrent requests, in ticks of TickSeconds
    raceCalls     \* number of calls the concurrent requests have started

raceVars == <<proc, expires, preClear, raceNow, raceCalls>>

vars == <<cacheVars, txVars, sqlVars, built, raceVars>>

(***************************************************************************)
(* Bounds                                                                  *)
(***************************************************************************)
NumQueries == 2   \* distinct cached query texts per table
MaxWrites == 2    \* committed writes per table
MaxItems == 2     \* items of a bulk call
NumRows == 2      \* rows of table users
MaxTime == 2      \* clock ticks
MaxCalls == 2     \* CRUD calls made
MaxDataset == 7   \* rows the base query of a paginated query selects
MaxPage == 4      \* requested page
MaxLimit == 4     \* requested limit

(***************************************************************************)
(* Program constants                                                       *)
(***************************************************************************)
SchemaTTL == 3600
QueryTTL == 300

Tables == {"users"}
UnknownTables == {"ghosts"}
QueryHashes == 1..NumQueries

Null == [kind |-> "null"]
JsonArray(items) == [kind |-> "array", items |-> items]
JsonValue(v) == [kind |-> "value", v |-> v]
JsonSchema(schema) == [kind |-> "schema", v |-> schema]

Range(s) == {s[i] : i \in 1..Len(s)}

(***************************************************************************)
(* Keys are template strings; a key is modelled as the sequence of its     *)
(* ':'-separated components.                                               *)
(***************************************************************************)
KeyPrefix == <<"app">>
GenerateKey(key) == KeyPrefix \o key

TableTag(t) == <<"table", t>>
OperationTag(op) == <<"operation", op>>
DataModificationTag == <<"data_modification">>
TagKey(tag) == GenerateKey(<<"tag">> \o tag)

QueryKey(t, h) == <<"query", t, h>>
SchemaKey(t) == <<"schema", t>>

(***************************************************************************)
(* config/redis.js: the store operations.  `up` is whether the Redis       *)
(* client answers; when it does not, client access throws.                 *)
(***************************************************************************)
\* JSON.stringify followed by JSON.parse: a Date comes back as a string.
JsonRoundTrip(value) ==
    IF value.kind = "schema"
    THEN JsonSchema([value.v EXCEPT !.lastUpdated = "string"])
    ELSE value

\* setCache: stores the serialized value (setEx when ttl > 0, else set).
SetCache(s, key, value, ttl) ==
    [k \in DOMAIN s \cup {key} |-> IF k = key THEN JsonRoundTrip(value) ELSE s[k]]

\* getCache: null on a miss (and on any error, which it swallows).
GetCache(s, up, key) ==
    IF up /\ key \in DOMAIN s THEN s[key] ELSE Null

\* deleteCache: removes the key (throws when the store is down).
DeleteCache(s, key) == [k \in DOMAIN s \ {key} |-> s[k]]

\* setCacheMultiple: one MULTI of setEx/set per pair.
SetCacheMultiple(s, pairs, ttl) ==
    [k \in DOMAIN s \cup DOMAIN pairs |->
        IF k \in DOMAIN pairs THEN JsonRoundTrip(pairs[k]) ELSE s[k]]

(***************************************************************************)
(* services/cacheService.js: the cache facade.  Each operator returns the  *)
(* store after the call and whether the call threw to its caller.          *)
(***************************************************************************)
\* tagKeys of CacheService.set: every tag's index entry is [cacheKey].
TagKeys(cacheKey, tags) ==
    [k \in {TagKey(tag) : tag \in Range(tags)} |-> JsonArray(<<cacheKey>>)]

CacheServiceSet(s, up, key, value, ttl, tags) ==
    LET cacheKey == GenerateKey(key)
        s1 == SetCache(s, cacheKey, value, ttl)
        s2 == IF Len(tags) > 0
              THEN SetCacheMultiple(s1, TagKeys(cacheKey, tags), ttl)
              ELSE s1
    IN  IF up THEN [store |-> s2, threw |-> FALSE]
              ELSE [store |-> s, threw |-> TRUE]

CacheServiceGet(s, up, key) == GetCache(s, up, GenerateKey(key))

CacheServiceDelete(s, up, key) ==
    LET cacheKey == GenerateKey(key)
    IN  IF up THEN [store |-> DeleteCache(s, cacheKey), ret |-> cacheKey \in DOMAIN s,
                    threw |-> FALSE]
              ELSE [store |-> s, ret |-> FALSE, threw |-> FALSE]

RECURSIVE DeleteAll(_, _)
DeleteAll(s, keys) ==
    IF keys = <<>> THEN s ELSE DeleteAll(DeleteCache(s, Head(keys)), Tail(keys))

\* invalidateByTags: per tag, read the index, delete its members, delete the index.
RECURSIVE InvalidateByTags(_, _, _)
InvalidateByTags(s, up, tags) ==
    IF tags = <<>> THEN s
    ELSE LET tagKey == TagKey(Head(tags))
             cachedKeys == GetCache(s, up, tagKey)
             s1 == IF cachedKeys # Null /\ cachedKeys.kind = "array"
                   THEN DeleteCache(DeleteAll(s, cachedKeys.items), tagKey)
                   ELSE s
         IN  InvalidateByTags(s1, up, Tail(tags))

(***************************************************************************)
(* utils/database.js: the schema catalog                                   *)
(***************************************************************************)
\* information_schema.columns of the database, per table (empty: no such table)
CatalogColumns(t) ==
    CASE t = "users" -> {"id", "email", "version", "created_at", "updated_at", "deleted_at"}
      [] t = "logs" -> {"id", "message"}
      [] t = "docs" -> {"id", "email", "rev", "updated_at"}
      [] OTHER -> {}

\* the PRIMARY KEY constraint's columns (<<>> stands for the code's null)
CatalogPrimaryKey(t) == IF CatalogColumns(t) # {} THEN <<"id">> ELSE <<>>

\* the schema object built on a fresh load
LoadSchema(t) ==
    [tableName |-> t,
     columns |-> CatalogColumns(t),
     hasDeletedAt |-> "deleted_at" \in CatalogColumns(t),
     hasCreatedAt |-> "created_at" \in CatalogColumns(t),
     hasUpdatedAt |-> "updated_at" \in CatalogColumns(t),
     hasVersion |-> "version" \in CatalogColumns(t),
     primaryKey |-> CatalogPrimaryKey(t),
     lastUpdated |-> "Date"]

\* `if (!schema)` negated: the external cache answered with a schema
ExternalNeverHits(cached) == FALSE

ExternalHit(cached) == cached # Null

NotFoundMessage == "Table not found"
StoreMessage == "store failed"

\* getTableSchema: local map, then the external cache, then the catalog.
\* Returns the two tiers after the call, whether it threw, the schema, and
\* the tiers it consulted in order.
GetTableSchema(s, sc, up, t) ==
    LET cacheKey == SchemaKey(t)
        cached == CacheServiceGet(s, up, cacheKey)
        fresh == LoadSchema(t)
        setRes == CacheServiceSet(s, up, cacheKey, JsonSchema(fresh), SchemaTTL, <<>>)
    IN  IF cacheKey \in DOMAIN sc
        THEN [store |-> s, schemaCache |-> sc, threw |-> FALSE, ret |-> sc[cacheKey],
              tiers |-> <<"local">>, error |-> Null]
        ELSE IF ExternalHit(cached)
        THEN [store |-> s,
              schemaCache |-> [k \in DOMAIN sc \cup {cacheKey} |->
                                 IF k = cacheKey THEN cached.v ELSE sc[k]],
              threw |-> FALSE, ret |-> cached.v,
              tiers |-> <<"local", "external">>, error |-> Null]
        ELSE IF CatalogColumns(t) = {}
        THEN [store |-> s, schemaCache |-> sc, threw |-> TRUE, ret |-> Null,
              tiers |-> <<"local", "external", "catalog">>, error |-> NotFoundMessage]
        ELSE IF setRes.threw
        THEN [store |-> setRes.store, schemaCache |-> sc, threw |-> TRUE, ret |-> Null,
              tiers |-> <<"local", "external", "catalog">>, error |-> StoreMessage]
        ELSE [store |-> setRes.store,
              schemaCache |-> [k \in DOMAIN sc \cup {cacheKey} |->
                                 IF k = cacheKey THEN fresh ELSE sc[k]],
              threw |-> FALSE, ret |-> fresh,
              tiers |-> <<"local", "external", "catalog">>, error |-> Null]

\* invalidateCache: the three tags of a write; failures never reach the caller.
InvalidateCache(s, up, t, operation) ==
    InvalidateByTags(s, up, <<TableTag(t), OperationTag(operation), DataModificationTag>>)

(***************************************************************************)
(* Ghost bookkeeping                                                       *)
(***************************************************************************)
\* keys (as passed to CacheService) whose cache entry is gone from s
Restrict(f, keep) == [k \in DOMAIN f \cap keep |-> f[k]]
StillStored(g, s) == Restrict(g, {k \in DOMAIN g : GenerateKey(k) \in DOMAIN s})
Tagged(g, key, tags) ==
    [k \in DOMAIN g \cup {key} |-> IF k = key THEN Range(tags) ELSE g[k]]
TaggedWith(g, tag) == {k \in DOMAIN g : tag \in g[k]}

EmptyFn == [k \in {} |-> Null]
Idle == [op |-> "none"]

\* the calls of this section leave the other sections' state alone
CacheOnly == UNCHANGED <<txVars, sqlVars, built, raceVars>>

\* no transaction in progress
TxQuiet ==
    /\ txIn = Idle
    /\ txPc = "idle"
    /\ loopI = 0
    /\ loopJ = 0
    /\ issued = <<>>
    /\ txRows = {}
    /\ committed = {}
    /\ connHeld = FALSE
    /\ releases = 0
    /\ txOutcome = [kind |-> "pending"]
    /\ timer = "none"
    /\ isResolved = FALSE
    /\ settleCalls = 0
    /\ callerOutcome = [kind |-> "pending"]
    /\ bulk = [state |-> "waiting", invalidated |-> FALSE]
    /\ peakConnections = 0

\* no concurrent request in progress
Procs == {"a", "b"}
Rest == [op |-> "none", pc |-> "none"]
RaceQuiet ==
    /\ proc = [p \in Procs |-> Rest]
    /\ expires = EmptyFn
    /\ preClear = {}
    /\ raceNow = 0
    /\ raceCalls = 0

\* no CRUD call in progress
Callers == {"p", "q"}
Ids == 1..NumRows
SqlQuiet ==
    /\ rows = [id \in Ids |-> [exists |-> TRUE, email |-> "old", version |-> 0,
                               updated_at |-> 0, deleted_at |-> 0]]
    /\ now = 1
    /\ call = [c \in Callers |-> Idle]
    /\ result = [c \in Callers |-> Idle]
    /\ calls = 0
    /\ deleteCalls = [id \in Ids |-> 0]
    /\ firstDelete = [id \in Ids |-> 0]
    /\ defaultDeleted = [id \in Ids |-> FALSE]
    /\ built = Idle
    /\ RaceQuiet

CacheInit ==
    /\ TxQuiet
    /\ SqlQuiet
    /\ store = EmptyFn
    /\ tagsOf = EmptyFn
    /\ clean = TRUE
    /\ schemaCache = EmptyFn
    /\ dbData = [t \in Tables |-> 0]
    /\ last = Idle

(***************************************************************************)
(* Calls.  Every call runs with the store answering (up) or not.           *)
(***************************************************************************)
\* cacheService.set(key, value, ttl, tags) called directly
CacheSetCall(key, value, tags, up) ==
    LET r == CacheServiceSet(store, up, key, value, QueryTTL, tags)
    IN  /\ store' = r.store
        /\ tagsOf' = IF r.threw THEN tagsOf ELSE Tagged(tagsOf, key, tags)
        /\ clean' = (clean /\ ~r.threw)
        /\ last' = [op |-> "set", key |-> key, tags |-> tags, up |-> up,
                    threw |-> r.threw, ret |-> Null]
        /\ UNCHANGED <<schemaCache, dbData>>
        /\ CacheOnly

\* cacheService.get(key) called directly
CacheGetCall(key, up) ==
    /\ last' = [op |-> "get", key |-> key, up |-> up, threw |-> FALSE,
                ret |-> CacheServiceGet(store, up, key)]
    /\ clean' = (clean /\ up)
    /\ UNCHANGED <<store, tagsOf, schemaCache, dbData>>
    /\ CacheOnly

\* cacheService.delete(key) called directly
CacheDeleteCall(key, up) ==
    LET r == CacheServiceDelete(store, up, key)
    IN  /\ store' = r.store
        /\ tagsOf' = StillStored(tagsOf, r.store)
        /\ clean' = FALSE
        /\ last' = [op |-> "delete", key |-> key, up |-> up, threw |-> r.threw,
                    ret |-> r.ret]
        /\ UNCHANGED <<schemaCache, dbData>>
        /\ CacheOnly

\* getTableSchema(t)
GetTableSchemaCall(t, up) ==
    LET r == GetTableSchema(store, schemaCache, up, t)
    IN  /\ store' = r.store
        /\ schemaCache' = r.schemaCache
        /\ clean' = (clean /\ up)
        /\ last' = [op |-> "getTableSchema", table |-> t, up |-> up,
                    threw |-> r.threw, ret |-> r.ret, tiers |-> r.tiers,
                    error |-> r.error]
        /\ UNCHANGED <<tagsOf, dbData>>
        /\ CacheOnly

\* clearSchemaCache(t)
ClearSchemaCacheCall(t, up) ==
    LET cacheKey == SchemaKey(t)
        r == CacheServiceDelete(store, up, cacheKey)
    IN  /\ schemaCache' = Restrict(schemaCache, DOMAIN schemaCache \ {cacheKey})
        /\ store' = r.store
        /\ clean' = FALSE
        /\ last' = [op |-> "clearSchemaCache", table |-> t, up |-> up,
                    threw |-> r.threw, ret |-> Null]
        /\ UNCHANGED <<tagsOf, dbData>>
        /\ CacheOnly

\* advancedQuery(t, {useCache: true, ...}) with an empty where object; h stands
\* for the query text (select list, limit, ...) the cache key is hashed from.
AdvancedQueryCachedCall(t, h, up) ==
    LET sch == GetTableSchema(store, schemaCache, up, t)
        cacheKey == QueryKey(t, h)
        cached == CacheServiceGet(sch.store, up, cacheKey)
        queryRows == JsonArray(<<dbData[t]>>)
        setRes == CacheServiceSet(sch.store, up, cacheKey, queryRows, QueryTTL, <<TableTag(t)>>)
        hit == ~sch.threw /\ cached # Null
        threw == sch.threw \/ (~hit /\ setRes.threw)
    IN  /\ schemaCache' = sch.schemaCache
        /\ store' = IF sch.threw \/ hit THEN sch.store ELSE setRes.store
        /\ tagsOf' = IF threw \/ hit THEN tagsOf
                      ELSE Tagged(tagsOf, cacheKey, <<TableTag(t)>>)
        /\ clean' = (clean /\ up)
        /\ last' = [op |-> "advancedQuery", table |-> t, key |-> cacheKey, up |-> up,
                    threw |-> threw, hit |-> hit,
                    ret |-> IF threw THEN Null ELSE IF hit THEN cached ELSE queryRows]
        /\ UNCHANGED dbData
        /\ CacheOnly

\* insertRecord(t, data) whose INSERT the database accepts
InsertRecordCall(t, up) ==
    LET sch == GetTableSchema(store, schemaCache, up, t)
        s2 == InvalidateCache(sch.store, up, t, "insert")
    IN  /\ dbData[t] < MaxWrites
        /\ schemaCache' = sch.schemaCache
        /\ store' = IF sch.threw THEN sch.store ELSE s2
        /\ dbData' = IF sch.threw THEN dbData ELSE [dbData EXCEPT ![t] = @ + 1]
        /\ tagsOf' = IF sch.threw THEN tagsOf ELSE StillStored(tagsOf, s2)
        /\ clean' = FALSE
        /\ last' = [op |-> "insertRecord", table |-> t, up |-> up, threw |-> sch.threw,
                    taggedBefore |-> TaggedWith(tagsOf, TableTag(t)),
                    ret |-> IF sch.threw THEN Null ELSE JsonValue(dbData[t] + 1)]
        /\ CacheOnly

CacheKeys == {QueryKey(t, h) : t \in Tables, h \in QueryHashes}
TagLists == {<<>>} \cup {<<TableTag(t)>> : t \in Tables}

CacheNext ==
    \/ \E k \in CacheKeys, tags \in TagLists, up \in BOOLEAN, t \in Tables :
          CacheSetCall(k, JsonArray(<<dbData[t]>>), tags, up)
    \/ \E k \in CacheKeys, up \in BOOLEAN : CacheGetCall(k, up)
    \/ \E k \in CacheKeys, up \in BOOLEAN : CacheDeleteCall(k, up)
    \/ \E t \in Tables \cup UnknownTables, up \in BOOLEAN : GetTableSchemaCall(t, up)
    \/ \E t \in Tables, up \in BOOLEAN : ClearSchemaCacheCall(t, up)
    \/ \E t \in Tables, h \in QueryHashes, up \in BOOLEAN : AdvancedQueryCachedCall(t, h, up)
    \/ \E t \in Tables, up \in BOOLEAN : InsertRecordCall(t, up)

SpecCache == CacheInit /\ [][CacheNext]_vars

(***************************************************************************)
(* Claims about the cache facade and the invalidation (SpecCache)          *)
(***************************************************************************)
\* whether cacheKey is a member of tag's index entry
InTagIndex(s, tag, cacheKey) ==
    LET idx == GetCache(s, TRUE, TagKey(tag))
    IN  idx # Null /\ idx.kind = "array" /\ cacheKey \in Range(idx.items)

\* C1: after a successful write on table T whose invalidation met no store
\* failure, cacheService.get returns absent for every key that was stored
\* with tag table:T before the write.
C1_WriteEvictsTaggedKeys ==
    (last.op = "insertRecord" /\ ~last.threw /\ last.up)
        => \A k \in last.taggedBefore : CacheServiceGet(store, TRUE, k) = Null

\* C2: while only cacheService.set calls have completed (no store failure, no
\* delete, no invalidation), every key set with tags is a member of the index
\* entry of each of its tags.
C2_TagIndexHoldsEveryTaggedKey ==
    clean => \A k \in DOMAIN tagsOf : \A tag \in tagsOf[k] :
                InTagIndex(store, tag, GenerateKey(k))

\* C7: with the store failing, cacheService.get returns null and
\* cacheService.set and cacheService.delete return normally (no throw).
C7_FacadeNeverThrows ==
    (last.op \in {"set", "get", "delete"} /\ ~last.up)
        => /\ ~last.threw
           /\ last.op = "get" => last.ret = Null

\* C8: with the store failing and the database healthy, getTableSchema and
\* the reads and writes built on it return what they return with a working
\* empty cache: the catalog's schema, the database's rows, the inserted row.
C8_StoreFailureNeverFailsTheCall ==
    (last.op \in {"getTableSchema", "advancedQuery", "insertRecord"}
        /\ ~last.up /\ last.table \in Tables)
        => /\ ~last.threw
           /\ last.op = "getTableSchema" => last.ret.columns = CatalogColumns(last.table)
           /\ last.op = "advancedQuery" => last.ret = JsonArray(<<dbData[last.table]>>)

\* a step that is a completed getTableSchema(t) call
GetTableSchemaStep(t) ==
    /\ last'.op = "getTableSchema"
    /\ last'.table = t
    /\ \/ last' # last
       \/ schemaCache' # schemaCache
       \/ store' # store

\* C21: getTableSchema answers from the process-local map when it holds the
\* table, touching neither the external cache nor the catalog; on a local miss
\* it asks the external cache and on a hit installs that value locally without
\* asking the catalog; it asks the catalog only on a miss in both tiers; and
\* when the catalog has no columns it throws not-found and both tiers are left
\* without an entry for the table.
C21_SchemaLookupOrder ==
    [][\A t \in Tables \cup UnknownTables :
        GetTableSchemaStep(t) =>
            LET cacheKey == SchemaKey(t)
                local == cacheKey \in DOMAIN schemaCache
                external == CacheServiceGet(store, last'.up, cacheKey)
            IN  /\ local =>
                    /\ last'.tiers = <<"local">>
                    /\ ~last'.threw /\ last'.ret = schemaCache[cacheKey]
                    /\ store' = store /\ schemaCache' = schemaCache
                /\ (~local /\ external # Null) =>
                    /\ last'.tiers = <<"local", "external">>
                    /\ ~last'.threw /\ last'.ret = external.v
                    /\ schemaCache'[cacheKey] = external.v
                    /\ store' = store
                /\ (~local /\ external = Null) =>
                    last'.tiers = <<"local", "external", "catalog">>
                /\ ("catalog" \in Range(last'.tiers) /\ CatalogColumns(t) = {}) =>
                    /\ last'.threw /\ last'.error = NotFoundMessage
                    /\ cacheKey \notin DOMAIN schemaCache'
                    /\ GenerateKey(cacheKey) \notin DOMAIN store'
    ]_vars

\* a load answered by the external cache: the local map was cleared while the
\* store's copy survived, and the value is installed locally again
C21_Witness ==
    /\ last.op = "getTableSchema"
    /\ last.tiers = <<"local", "external">>
    /\ SchemaKey(last.table) \in DOMAIN schemaCache
    /\ schemaCache[SchemaKey(last.table)] = last.ret

\* C22: after clearSchemaCache(table) has returned, neither the process-local
\* map nor the external cache holds a schema for the table, also when the
\* external store's delete failed.
C22_ClearEmptiesBothTiers ==
    last.op = "clearSchemaCache" =>
        /\ SchemaKey(last.table) \notin DOMAIN schemaCache
        /\ GenerateKey(SchemaKey(last.table)) \notin DOMAIN store

(***************************************************************************)
(* config/database.js transaction, utils/database.js executeTransaction    *)
(* and bulkInsert.  One action per await of the transaction; a handler     *)
(* that runs in the same turn of the event loop belongs to the action.     *)
(***************************************************************************)
DefaultTimeout == 60000
NoIsolation == "null"
Pending == [kind |-> "pending"]
Resolved == [kind |-> "resolved"]
Rejected(error) == [kind |-> "rejected", error |-> error]

Min(a, b) == IF a < b THEN a ELSE b
Max(a, b) == IF a > b THEN a ELSE b

BulkCallers == {"bulkInsert", "bulkUpdate"}
ItemStatement(caller) == IF caller = "bulkInsert" THEN "INSERT" ELSE "UPDATE"

\* the calls: bulkInsert / bulkUpdate(table, items, {batchSize, timeout}) and a direct
\* executeTransaction(callback, {timeout, isolationLevel}) whose callback runs
\* its statements on the client it is given (as executeBatchProcedures does)
TxInputs ==
    UNION {
        {[caller |-> c, n |-> n, bad |-> bad, batchSize |-> b,
          timeout |-> t, isolationLevel |-> NoIsolation] :
            c \in BulkCallers, bad \in SUBSET (1..n), b \in 1..MaxItems,
            t \in {0, DefaultTimeout}}
        \cup
        {[caller |-> "executeTransaction", n |-> n, bad |-> bad, batchSize |-> n,
          timeout |-> t, isolationLevel |-> iso] :
            bad \in SUBSET (1..n), t \in {0, DefaultTimeout},
            iso \in {NoIsolation, "SERIALIZABLE"}}
        : n \in 1..MaxItems}

\* a statement and its answer; via: the transaction's client or the pool
Stmt(stmt, ok, via) == [stmt |-> stmt, ok |-> ok, via |-> via]

\* a Promise keeps its first settlement
PromiseSettle(current, outcome) == IF current.kind = "pending" THEN outcome ELSE current

\* variant: the handlers settle the promise without looking at isResolved
GuardAlwaysOpen(resolvedFlag) == TRUE

\* `if (!isResolved)` of the timer callback and of the then/catch handlers
GuardOpen(resolvedFlag) == ~resolvedFlag

\* the error a failed transaction carries: the first statement that failed
FirstFailure(stmts) ==
    LET failed == {i \in 1..Len(stmts) : ~stmts[i].ok}
    IN  stmts[CHOOSE i \in failed : \A j \in failed : i <= j].stmt

\* variant: release() placed after ROLLBACK inside the catch block
ReleasesAfterRollbackOnly(n, rollbackOk) == IF rollbackOk THEN n + 1 ELSE n

\* release() runs in the finally block, whatever ROLLBACK answered
ReleasesAfter(n, rollbackOk) == n + 1

\* .then / .catch of executeTransaction: settle the caller unless already resolved
SettleCaller(outcome) ==
    IF GuardOpen(isResolved)
    THEN /\ isResolved' = TRUE
         /\ timer' = IF timer = "armed" THEN "cleared" ELSE timer
         /\ callerOutcome' = PromiseSettle(callerOutcome, outcome)
         /\ settleCalls' = settleCalls + 1
    ELSE UNCHANGED <<isResolved, timer, callerOutcome, settleCalls>>

TxOnly == UNCHANGED <<cacheVars, sqlVars, built, raceVars>>

CacheQuiet ==
    /\ store = EmptyFn
    /\ tagsOf = EmptyFn
    /\ clean = TRUE
    /\ schemaCache = EmptyFn
    /\ dbData = [t \in Tables |-> 0]
    /\ last = Idle

TxInit ==
    /\ CacheQuiet
    /\ SqlQuiet
    /\ txIn \in TxInputs
    /\ txPc = "start"
    /\ loopI = 0
    /\ loopJ = 1
    /\ issued = <<>>
    /\ txRows = {}
    /\ committed = {}
    /\ connHeld = FALSE
    /\ releases = 0
    /\ txOutcome = Pending
    /\ timer = "none"
    /\ isResolved = FALSE
    /\ settleCalls = 0
    /\ callerOutcome = Pending
    /\ bulk = [state |-> "waiting", invalidated |-> FALSE]
    /\ peakConnections = 0

\* executeTransaction: arm the timer, call transaction(), which awaits pool.connect()
ExecuteTransactionStart ==
    /\ txPc = "start"
    /\ txPc' = "connect"
    /\ timer' = IF txIn.timeout > 0 THEN "armed" ELSE "none"
    /\ UNCHANGED <<txIn, loopI, loopJ, issued, txRows, committed, connHeld, releases,
                   txOutcome, isResolved, settleCalls, callerOutcome, bulk>>
    /\ UNCHANGED peakConnections
    /\ TxOnly

\* pool.connect() answers; on failure transaction() rejects before its try block
PoolConnect(ok) ==
    /\ txPc = "connect"
    /\ IF ok
       THEN /\ connHeld' = TRUE
            /\ txPc' = "begin"
            /\ UNCHANGED <<txOutcome, isResolved, timer, callerOutcome, settleCalls>>
       ELSE /\ txPc' = "done"
            /\ txOutcome' = Rejected("connect")
            /\ SettleCaller(Rejected("connect"))
            /\ UNCHANGED connHeld
    /\ peakConnections' = IF ok THEN Max(peakConnections, 1) ELSE peakConnections
    /\ UNCHANGED <<txIn, loopI, loopJ, issued, txRows, committed, releases, bulk>>
    /\ TxOnly

\* BEGIN answers
ClientBegin(ok) ==
    /\ txPc = "begin"
    /\ issued' = Append(issued, Stmt("BEGIN", ok, "client"))
    /\ txPc' = IF ~ok THEN "rollback"
               ELSE IF txIn.isolationLevel # NoIsolation THEN "isolation" ELSE "callback"
    /\ UNCHANGED <<txIn, loopI, loopJ, txRows, committed, connHeld, releases, txOutcome,
                   timer, isResolved, settleCalls, callerOutcome, bulk>>
    /\ UNCHANGED peakConnections
    /\ TxOnly

\* SET TRANSACTION ISOLATION LEVEL answers
ClientSetIsolation(ok) ==
    /\ txPc = "isolation"
    /\ issued' = Append(issued, Stmt("SET", ok, "client"))
    /\ txPc' = IF ok THEN "callback" ELSE "rollback"
    /\ UNCHANGED <<txIn, loopI, loopJ, txRows, committed, connHeld, releases, txOutcome,
                   timer, isResolved, settleCalls, callerOutcome, bulk>>
    /\ UNCHANGED peakConnections
    /\ TxOnly

\* the batch of the bulk loop at offset i: dataArray.slice(i, i + batchSize)
BatchLen(i) == Min(txIn.batchSize, txIn.n - i)

\* the callback's next item is answered: bulkInsert's insertRecord and
\* bulkUpdate's updateRecord send their statement through the pool's query(),
\* which takes a connection of its own for the statement while the
\* transaction's client stays checked out; a direct callback uses
\* client.query()
RunItem ==
    LET k == loopI + loopJ
        ok == k \notin txIn.bad
        viaPool == txIn.caller \in BulkCallers
        inFlight == (IF connHeld THEN 1 ELSE 0) + (IF viaPool THEN 1 ELSE 0)
        lastOfBatch == loopJ >= BatchLen(loopI)
        nextI == IF lastOfBatch THEN loopI + txIn.batchSize ELSE loopI
    IN  /\ txPc = "callback"
        /\ issued' = Append(issued, IF viaPool THEN Stmt(ItemStatement(txIn.caller), ok, "pool")
                                                ELSE Stmt("CALL", ok, "client"))
        /\ peakConnections' = Max(peakConnections, inFlight)
        /\ committed' = IF ok /\ viaPool THEN committed \cup {k} ELSE committed
        /\ txRows' = IF ok /\ ~viaPool THEN txRows \cup {k} ELSE txRows
        /\ loopI' = IF ok THEN nextI ELSE loopI
        /\ loopJ' = IF ~ok THEN loopJ ELSE IF lastOfBatch THEN 1 ELSE loopJ + 1
        /\ txPc' = IF ~ok THEN "rollback"
                   ELSE IF nextI >= txIn.n THEN "commit" ELSE "callback"
        /\ UNCHANGED <<txIn, connHeld, releases, txOutcome, timer, isResolved,
                       settleCalls, callerOutcome, bulk>>
        /\ TxOnly

\* COMMIT answers; on success the finally block releases and the promise resolves
ClientCommit(ok) ==
    /\ txPc = "commit"
    /\ issued' = Append(issued, Stmt("COMMIT", ok, "client"))
    /\ IF ok
       THEN /\ committed' = committed \cup txRows
            /\ txRows' = {}
            /\ releases' = releases + 1
            /\ connHeld' = FALSE
            /\ txOutcome' = Resolved
            /\ SettleCaller(Resolved)
            /\ txPc' = "done"
       ELSE /\ txPc' = "rollback"
            /\ UNCHANGED <<committed, txRows, releases, connHeld, txOutcome, timer,
                           isResolved, settleCalls, callerOutcome>>
    /\ UNCHANGED <<txIn, loopI, loopJ, bulk>>
    /\ UNCHANGED peakConnections
    /\ TxOnly

\* ROLLBACK answers; the finally block releases; the promise rejects with the
\* caught error, or with ROLLBACK's own error when ROLLBACK failed
ClientRollback(ok) ==
    LET error == IF ok THEN FirstFailure(issued) ELSE "ROLLBACK"
    IN  /\ txPc = "rollback"
        /\ issued' = Append(issued, Stmt("ROLLBACK", ok, "client"))
        /\ txRows' = {}
        /\ releases' = ReleasesAfter(releases, ok)
        /\ connHeld' = (releases' = releases)
        /\ txOutcome' = Rejected(error)
        /\ SettleCaller(Rejected(error))
        /\ txPc' = "done"
        /\ UNCHANGED <<txIn, loopI, loopJ, committed, bulk>>
        /\ UNCHANGED peakConnections
        /\ TxOnly

\* the setTimeout callback
TimerFires ==
    /\ timer = "armed"
    /\ timer' = "fired"
    /\ IF GuardOpen(isResolved)
       THEN /\ isResolved' = TRUE
            /\ callerOutcome' = PromiseSettle(callerOutcome, Rejected("timeout"))
            /\ settleCalls' = settleCalls + 1
       ELSE UNCHANGED <<isResolved, callerOutcome, settleCalls>>
    /\ UNCHANGED <<txIn, txPc, loopI, loopJ, issued, txRows, committed, connHeld,
                   releases, txOutcome, bulk>>
    /\ UNCHANGED peakConnections
    /\ TxOnly

\* the caller resumes after `await executeTransaction(...)`: bulkInsert and
\* bulkUpdate invalidate the table's tag and return, or log and rethrow
CallerResumes ==
    /\ callerOutcome.kind # "pending"
    /\ bulk.state = "waiting"
    /\ bulk' = IF callerOutcome.kind = "resolved"
               THEN [state |-> "returned", invalidated |-> txIn.caller \in BulkCallers]
               ELSE [state |-> "threw", invalidated |-> FALSE]
    /\ UNCHANGED <<txIn, txPc, loopI, loopJ, issued, txRows, committed, connHeld,
                   releases, txOutcome, timer, isResolved, settleCalls, callerOutcome>>
    /\ UNCHANGED peakConnections
    /\ TxOnly

TxNext ==
    \/ ExecuteTransactionStart
    \/ \E ok \in BOOLEAN : PoolConnect(ok)
    \/ \E ok \in BOOLEAN : ClientBegin(ok)
    \/ \E ok \in BOOLEAN : ClientSetIsolation(ok)
    \/ RunItem
    \/ \E ok \in BOOLEAN : ClientCommit(ok)
    \/ \E ok \in BOOLEAN : ClientRollback(ok)
    \/ TimerFires
    \/ CallerResumes

SpecTx == TxInit /\ [][TxNext]_vars

(***************************************************************************)
(* Claims about the transaction wrapper and bulkInsert (SpecTx)            *)
(***************************************************************************)
Issued(stmt) == \E i \in 1..Len(issued) : issued[i].stmt = stmt
Failed(stmt) == \E i \in 1..Len(issued) : issued[i].stmt = stmt /\ ~issued[i].ok
\* BEGIN, the isolation statement, the unit of work or COMMIT threw
WorkFailed == \E i \in 1..Len(issued) : issued[i].stmt # "ROLLBACK" /\ ~issued[i].ok
Acquired == connHeld \/ releases > 0

\* C3: bulkInsert is all-or-nothing: once an item's insert has failed, no row
\* of any item of the list is committed.
C3_BulkInsertAllOrNothing ==
    (txIn.caller = "bulkInsert" /\ Failed("INSERT")) => committed = {}

TxWork ==
    \/ \E ok \in BOOLEAN : PoolConnect(ok)
    \/ \E ok \in BOOLEAN : ClientBegin(ok)
    \/ \E ok \in BOOLEAN : ClientSetIsolation(ok)
    \/ RunItem
    \/ \E ok \in BOOLEAN : ClientCommit(ok)
    \/ \E ok \in BOOLEAN : ClientRollback(ok)

C6_States ==
    /\ timer = "fired" => callerOutcome = Rejected("timeout")
    /\ (timer = "fired" /\ txPc # "done") => ENABLED TxWork
    /\ (txPc = "done" /\ timer # "fired") => callerOutcome = txOutcome
    /\ txIn.timeout = 0 => timer = "none"
    /\ settleCalls <= 1
    /\ settleCalls = 0 <=> callerOutcome.kind = "pending"
    /\ txPc = "done" => settleCalls = 1

\* C6: soft timeout.  When the timer fires first the caller is rejected with
\* the timeout error while the transaction keeps running (it is not
\* cancelled); when the transaction settles first the caller gets its result
\* or error and the timer never rejects; resolve/reject is called exactly once
\* and the caller's outcome, once set, never changes.
C6_SoftTimeout ==
    /\ []C6_States
    /\ [][callerOutcome.kind # "pending" => callerOutcome' = callerOutcome]_vars

\* C6 witness: the timer fired, the caller was told it timed out, and the
\* transaction went on to COMMIT afterwards
C6_Witness ==
    /\ timer = "fired"
    /\ callerOutcome = Rejected("timeout")
    /\ txOutcome = Resolved
    /\ txRows = {} /\ committed # {}
    /\ txIn.caller = "executeTransaction"

\* the soft timeout elapsed: the timer rejected the caller
TimedOut == timer = "fired" /\ callerOutcome = Rejected("timeout")
\* the transaction is between pool.connect() and its finally block
InTransaction == txPc \in {"begin", "isolation", "callback", "commit", "rollback"}

\* C25 as stated: when the soft timeout elapses the connection of the
\* abandoned transaction is released as part of the abandonment, not held
\* until the abandoned unit of work finishes.
C25_TimeoutReleasesConnection ==
    TimedOut => ~connHeld

\* C25 amended: the soft timeout leaves the connection with the abandoned
\* transaction; it stays checked out while the transaction runs on and is
\* released exactly once, by the transaction's finally block, when the
\* transaction ends.
C25_ConnectionHeldUntilTransactionEnds ==
    TimedOut =>
        /\ InTransaction => (connHeld /\ releases = 0)
        /\ (txPc = "done" /\ Issued("BEGIN")) => (~connHeld /\ releases = 1)

\* the caller was told of the timeout while the unit of work still runs on
\* the connection
C25_Witness ==
    /\ TimedOut
    /\ txPc = "callback"
    /\ connHeld
    /\ Len(issued) > 1

\* C26: an in-flight operation holds at most one pool connection at any
\* moment; the bulk operations run every per-item statement on the connection
\* of their transaction.
C26_AtMostOneConnection ==
    /\ peakConnections <= 1
    /\ \A i \in 1..Len(issued) : issued[i].via = "client"

\* C28: a bulk write whose transaction commits is followed by the bulk call's
\* final invalidateCache, also when the soft timeout fired while the
\* transaction was still running.
C28_CommittedBulkWriteInvalidates ==
    (txIn.caller \in BulkCallers /\ txOutcome = Resolved /\ bulk.state # "waiting")
        => bulk.invalidated


(***************************************************************************)
(* Schema-aware CRUD: the statements updateRecord, deleteRecord and        *)
(* findWhere send, and what PostgreSQL does with them.                     *)
(* A JavaScript object is a sequence of <<key, value>> pairs in insertion  *)
(* order.  A statement keeps, for every comparison and assignment, what    *)
(* the emitted text has on the right-hand side: a placeholder $k, the      *)
(* bare number k, or NOW().                                                *)
(***************************************************************************)
Has(obj, key) == \E i \in 1..Len(obj) : obj[i][1] = key
Get(obj, key) == obj[CHOOSE i \in 1..Len(obj) : obj[i][1] = key][2]
Put(obj, key, value) ==
    IF Has(obj, key)
    THEN [i \in 1..Len(obj) |-> IF obj[i][1] = key THEN <<key, value>> ELSE obj[i]]
    ELSE Append(obj, <<key, value>>)
Keys(obj) == [i \in 1..Len(obj) |-> obj[i][1]]
\* obj[key] is truthy: present and not null (a timestamp 0 stands for null)
Truthy(obj, key) == Has(obj, key) /\ Get(obj, key) # 0
Values(obj) == [i \in 1..Len(obj) |-> obj[i][2]]

Param(k) == [type |-> "param", k |-> k]        \* the text $k
Literal(k) == [type |-> "literal", k |-> k]    \* the text k
NowFn == [type |-> "now", k |-> 0]             \* the text NOW()
Term(col, rhs) == [col |-> col, rhs |-> rhs]

\* an option that is null, true or false
Tri == {"null", "true", "false"}

\* updateRecord without the version comparison in its WHERE clause
NoVersionGuard(whereConditions, versionColumn, version) == whereConditions

\* whereConditions[versionColumn] = validData[versionColumn]
VersionGuard(whereConditions, versionColumn, version) ==
    Put(whereConditions, versionColumn, version)

\* the UPDATE updateRecord sends
UpdateStatement(schema, data, whereConditions, optimisticLocking, versionColumn, date) ==
    LET known(kv) == kv[1] \in schema.columns
        filtered == SelectSeq(data, known)
        stamped == IF schema.hasUpdatedAt /\ ~Truthy(filtered, "updated_at")
                   THEN Append(filtered, <<"updated_at", date>>)
                   ELSE filtered
        lock == optimisticLocking /\ schema.hasVersion /\ Has(stamped, versionColumn)
        whereLocked == IF lock
                       THEN VersionGuard(whereConditions, versionColumn,
                                         Get(stamped, versionColumn))
                       ELSE whereConditions
        validData == IF lock
                     THEN Put(stamped, versionColumn, Get(stamped, versionColumn) + 1)
                     ELSE stamped
        dataValues == Values(validData)
    IN  [kind |-> "UPDATE",
         set |-> [i \in 1..Len(validData) |-> Term(validData[i][1], Param(i))],
         where |-> [i \in 1..Len(whereLocked) |->
                      Term(whereLocked[i][1], Param(Len(dataValues) + i))],
         guard |-> FALSE,
         params |-> dataValues \o Values(whereLocked)]

\* the statement deleteRecord sends: soft delete is an UPDATE of deleted_at
\* guarded by "deleted_at IS NULL OR deleted_at > NOW()", hard delete a DELETE
UseSoftDelete(schema, softDelete) ==
    IF softDelete # "null" THEN softDelete = "true" ELSE schema.hasDeletedAt

DeleteStatement(schema, whereConditions, softDelete) ==
    LET whereColumns == Keys(whereConditions)
        whereClause == [i \in 1..Len(whereColumns) |-> Term(whereColumns[i], Literal(i))]
    IN  IF UseSoftDelete(schema, softDelete)
        THEN [kind |-> "UPDATE",
              set |-> <<Term("deleted_at", NowFn)>> \o
                      (IF schema.hasUpdatedAt THEN <<Term("updated_at", NowFn)>> ELSE <<>>),
              where |-> whereClause,
              guard |-> TRUE,
              params |-> Values(whereConditions)]
        ELSE [kind |-> "DELETE",
              set |-> <<>>,
              where |-> whereClause,
              guard |-> FALSE,
              params |-> Values(whereConditions)]

\* the SELECT advancedQuery sends for findWhere(table, conditions, options)
ShouldFilterSoftDeleted(schema, includeSoftDeleted) ==
    IF includeSoftDeleted # "null" THEN includeSoftDeleted # "true" ELSE schema.hasDeletedAt

\* a filter value: a scalar, null, or an array
Scalar(v) == [kind |-> "scalar", items |-> <<v>>]
NullValue == [kind |-> "null", items |-> <<>>]
Array(items) == [kind |-> "array", items |-> items]
Scalars(obj) == [i \in 1..Len(obj) |-> <<obj[i][1], Scalar(obj[i][2])>>]

\* the right-hand sides `IN (..., ...)` and `IS NULL`
InList(items) == [type |-> "list", k |-> 0, items |-> items]
IsNull == [type |-> "isnull", k |-> 0]

\* column names written with a table qualifier (key.includes('.'))
QualifiedKeys == {"u.id"}

\* the text `${paramIndex++}` the query builder writes for a bound value
QueryPlaceholder(k) == Literal(k)

\* the conditions of a where object from paramIndex on, in emission order
RECURSIVE WhereClauses(_, _)
WhereClauses(kept, paramIndex) ==
    IF kept = <<>> THEN <<>>
    ELSE LET key == Head(kept)[1]
             value == Head(kept)[2]
             n == Len(value.items)
             clause == CASE value.kind = "array" ->
                              Term(key, InList([i \in 1..n |->
                                                  QueryPlaceholder(paramIndex + i - 1)]))
                         [] value.kind = "null" -> Term(key, IsNull)
                         [] OTHER -> Term(key, QueryPlaceholder(paramIndex))
         IN  <<clause>> \o WhereClauses(Tail(kept), paramIndex + n)

\* params.push(...value) / params.push(value), in emission order
RECURSIVE BoundValues(_)
BoundValues(kept) ==
    IF kept = <<>> THEN <<>> ELSE Head(kept)[2].items \o BoundValues(Tail(kept))

\* advancedQuery keeps a condition when its column is known or qualified
KeptByAdvancedQuery(schema, where) ==
    LET keep(kv) == kv[1] \in schema.columns \/ kv[1] \in QualifiedKeys
    IN  SelectSeq(where, keep)

SelectStatement(schema, conditions, includeSoftDeleted) ==
    LET kept == KeptByAdvancedQuery(schema, conditions)
    IN  [kind |-> "SELECT",
         set |-> <<>>,
         where |-> WhereClauses(kept, 1),
         guard |-> ShouldFilterSoftDeleted(schema, includeSoftDeleted),
         params |-> BoundValues(kept)]

\* countRecords keeps a condition when its column is known
KeptByCountRecords(schema, conditions) ==
    LET keep(kv) == kv[1] \in schema.columns IN SelectSeq(conditions, keep)

\* the SELECT COUNT(*) countRecords sends
CountStatement(schema, conditions, includeSoftDeleted) ==
    LET kept == KeptByCountRecords(schema, conditions)
    IN  [kind |-> "COUNT",
         set |-> <<>>,
         where |-> WhereClauses(kept, 1),
         guard |-> ShouldFilterSoftDeleted(schema, includeSoftDeleted),
         params |-> BoundValues(kept)]

(***************************************************************************)
(* PostgreSQL, reached through pool.query(text, params).  The values bound *)
(* must be as many as the placeholders the text has: otherwise the server  *)
(* rejects the statement and nothing is read or written.                   *)
(***************************************************************************)

\* the highest $k a right-hand side names
RECURSIVE HighestParam(_)
HighestParam(rhss) ==
    IF rhss = <<>> THEN 0
    ELSE Max(CASE Head(rhss).type = "param" -> Head(rhss).k
               [] Head(rhss).type = "list" -> HighestParam(Head(rhss).items)
               [] OTHER -> 0,
             HighestParam(Tail(rhss)))

ParamsRequired(terms) == HighestParam([i \in 1..Len(terms) |-> terms[i].rhs])

BindError(stmt) == Len(stmt.params) # ParamsRequired(stmt.set \o stmt.where)

RhsValue(stmt, rhs, clock) ==
    CASE rhs.type = "param" -> stmt.params[rhs.k]
      [] rhs.type = "literal" -> rhs.k
      [] OTHER -> clock

ColumnOf(id, row, col) == IF col = "id" THEN id ELSE row[col]

Matches(stmt, id, row, clock) ==
    /\ row.exists
    /\ \A i \in 1..Len(stmt.where) :
          LET column == ColumnOf(id, row, stmt.where[i].col)
              rhs == stmt.where[i].rhs
          IN  CASE rhs.type = "isnull" -> column = 0
                [] rhs.type = "list" ->
                     \E j \in 1..Len(rhs.items) : column = RhsValue(stmt, rhs.items[j], clock)
                [] OTHER -> column = RhsValue(stmt, rhs, clock)
    /\ stmt.guard => (row.deleted_at = 0 \/ row.deleted_at > clock)

RECURSIVE ApplySet(_, _, _, _)
ApplySet(stmt, row, terms, clock) ==
    IF terms = <<>> THEN row
    ELSE ApplySet(stmt,
                  [row EXCEPT ![Head(terms).col] = RhsValue(stmt, Head(terms).rhs, clock)],
                  Tail(terms), clock)

\* the answer: an error, or the rows the statement matched and the table after it
Execute(stmt, table, clock) ==
    LET matched == {id \in DOMAIN table : Matches(stmt, id, table[id], clock)}
    IN  IF BindError(stmt)
        THEN [error |-> TRUE, rows |-> {}, table |-> table]
        ELSE [error |-> FALSE,
              rows |-> matched,
              table |-> [id \in DOMAIN table |->
                          IF id \notin matched THEN table[id]
                          ELSE IF stmt.kind = "UPDATE"
                               THEN ApplySet(stmt, table[id], stmt.set, clock)
                          ELSE IF stmt.kind = "DELETE"
                               THEN [table[id] EXCEPT !.exists = FALSE]
                          ELSE table[id]]]

(***************************************************************************)
(* Calls.  Two callers share the pool; each call builds its statement,     *)
(* sends it and resumes when the server answers, so the statements of two  *)
(* calls in flight reach the server in either order.                       *)
(***************************************************************************)
SqlOnly == UNCHANGED <<txVars, clean, schemaCache, dbData, last, built, raceVars>>

WarmSchemaCache == [k \in {SchemaKey("users")} |-> LoadSchema("users")]

SqlInit ==
    /\ TxQuiet
    /\ SqlQuiet
    /\ store = EmptyFn
    /\ tagsOf = EmptyFn
    /\ clean = TRUE
    /\ schemaCache = WarmSchemaCache
    /\ dbData = [t \in Tables |-> 0]
    /\ last = Idle

SchemaOf(t) == GetTableSchema(store, schemaCache, TRUE, t).ret

WhereInputs == {<<>>} \cup {<< <<"id", id>> >> : id \in Ids}

RowsAimedAt(whereConditions) ==
    IF whereConditions = <<>> THEN Ids ELSE {Get(whereConditions, "id")}

\* the errors of the server and of deleteRecord's guard
BindMessage == "bind message supplies the wrong number of parameters"
ForceMessage == "requires WHERE conditions or force=true"

\* updateRecord('users', {email, [version]}, {id}, {optimisticLocking}) up to
\* the query being sent; the caller read the row, so the version is the row's
UpdateRecordStart(c, id, optimisticLocking) ==
    LET data == << <<"email", "new">> >> \o
                (IF optimisticLocking THEN << <<"version", rows[id].version>> >> ELSE <<>>)
    IN  /\ call[c] = Idle
        /\ calls < MaxCalls
        /\ rows[id].exists
        /\ calls' = calls + 1
        /\ call' = [call EXCEPT ![c] =
                      [op |-> "updateRecord", id |-> id,
                       optimisticLocking |-> optimisticLocking,
                       version |-> rows[id].version,
                       stmt |-> UpdateStatement(SchemaOf("users"), data, << <<"id", id>> >>,
                                                optimisticLocking, "version", now)]]
        /\ UNCHANGED <<rows, now, result, deleteCalls, firstDelete, defaultDeleted,
                       store, tagsOf>>
        /\ SqlOnly

\* deleteRecord sending its statement whatever the conditions
NeverRequiresWhere(whereConditions, force) == FALSE

\* if (whereColumns.length === 0 && !force) throw
RequiresWhere(whereConditions, force) == whereConditions = <<>> /\ ~force

\* deleteRecord('users', where, {softDelete, force}) up to the query being
\* sent; without conditions and without force it throws before any statement
DeleteRecordStart(c, whereConditions, softDelete, force) ==
    /\ call[c] = Idle
    /\ calls < MaxCalls
    /\ calls' = calls + 1
    /\ IF RequiresWhere(whereConditions, force)
       THEN /\ result' = [result EXCEPT ![c] =
                            [op |-> "deleteRecord", threw |-> TRUE,
                             error |-> ForceMessage,
                             returned |-> {}, invalidated |-> FALSE]]
            /\ UNCHANGED call
       ELSE /\ call' = [call EXCEPT ![c] =
                          [op |-> "deleteRecord", where |-> whereConditions,
                           softDelete |-> softDelete,
                           forced |-> whereConditions = <<>> /\ force,
                           stmt |-> DeleteStatement(SchemaOf("users"), whereConditions,
                                                    softDelete)]]
            /\ UNCHANGED result
    /\ UNCHANGED <<rows, now, deleteCalls, firstDelete, defaultDeleted, store, tagsOf>>
    /\ SqlOnly

\* findWhere('users', conditions, {includeSoftDeleted}) up to the query being sent
FindWhereStart(c, conditions, includeSoftDeleted) ==
    /\ call[c] = Idle
    /\ calls < MaxCalls
    /\ calls' = calls + 1
    /\ call' = [call EXCEPT ![c] =
                  [op |-> "findWhere", where |-> conditions,
                   includeSoftDeleted |-> includeSoftDeleted,
                   stmt |-> SelectStatement(SchemaOf("users"), Scalars(conditions),
                                            includeSoftDeleted)]]
    /\ UNCHANGED <<rows, now, result, deleteCalls, firstDelete, defaultDeleted,
                   store, tagsOf>>
    /\ SqlOnly

\* updateRecord returning although no row came back
NoRowsReturns(op, returned) == FALSE

\* if (result.rows.length === 0) throw: updateRecord has the test, deleteRecord
\* and findWhere have none
NoRowsThrows(op, returned) == op = "updateRecord" /\ returned = {}

\* the server executes the statement and the call resumes: updateRecord
\* throws when no row came back, deleteRecord and findWhere return what came;
\* a write that did not throw invalidates the table's cached reads
QueryAnswer(c) ==
    LET in == call[c]
        r == Execute(in.stmt, rows, now)
        noRows == ~r.error /\ NoRowsThrows(in.op, r.rows)
        threw == r.error \/ noRows
        error == IF r.error THEN BindMessage
                 ELSE IF noRows THEN "No records updated"
                 ELSE "none"
        soft == in.op = "deleteRecord" /\ UseSoftDelete(SchemaOf("users"), in.softDelete)
        aimed == IF soft THEN RowsAimedAt(in.where) ELSE {}
        write == in.op \in {"updateRecord", "deleteRecord"}
    IN  /\ call[c] # Idle
        /\ rows' = r.table
        /\ call' = [call EXCEPT ![c] = Idle]
        /\ result' = [result EXCEPT ![c] =
              CASE in.op = "updateRecord" ->
                     [op |-> in.op, id |-> in.id, optimisticLocking |-> in.optimisticLocking,
                      version |-> in.version, threw |-> threw, error |-> error,
                      returned |-> r.rows, invalidated |-> ~threw]
                [] in.op = "deleteRecord" ->
                     [op |-> in.op, threw |-> threw, error |-> error, returned |-> r.rows,
                      invalidated |-> ~threw]
                [] OTHER ->
                     [op |-> in.op, includeSoftDeleted |-> in.includeSoftDeleted,
                      afterDelete |-> {id \in RowsAimedAt(in.where) :
                                         defaultDeleted[id] /\ rows[id].exists},
                      threw |-> threw, error |-> error, returned |-> r.rows]]
        /\ deleteCalls' = [id \in Ids |-> deleteCalls[id] + IF id \in aimed THEN 1 ELSE 0]
        /\ firstDelete' = [id \in Ids |->
                             IF id \in aimed /\ firstDelete[id] = 0 THEN now
                             ELSE firstDelete[id]]
        /\ defaultDeleted' = [id \in Ids |->
                                \/ defaultDeleted[id]
                                \/ /\ soft
                                   /\ in.softDelete = "null"
                                   /\ in.where = << <<"id", id>> >>]
        /\ store' = IF write /\ ~threw
                    THEN InvalidateCache(store, TRUE, "users",
                                         IF in.op = "updateRecord" THEN "update" ELSE "delete")
                    ELSE store
        /\ tagsOf' = StillStored(tagsOf, store')
        /\ UNCHANGED <<now, calls>>
        /\ SqlOnly

\* time passes
Tick ==
    /\ now < MaxTime
    /\ now' = now + 1
    /\ UNCHANGED <<rows, call, result, calls, deleteCalls, firstDelete, defaultDeleted,
                   store, tagsOf>>
    /\ SqlOnly

SqlNext ==
    \/ \E c \in Callers, id \in Ids, optimisticLocking \in BOOLEAN :
          UpdateRecordStart(c, id, optimisticLocking)
    \/ \E c \in Callers, w \in WhereInputs, softDelete \in Tri, force \in BOOLEAN :
          DeleteRecordStart(c, w, softDelete, force)
    \/ \E c \in Callers, w \in WhereInputs, includeSoftDeleted \in Tri :
          FindWhereStart(c, w, includeSoftDeleted)
    \/ \E c \in Callers : QueryAnswer(c)
    \/ Tick

SpecDb == SqlInit /\ [][SqlNext]_vars


(***************************************************************************)
(* Claims of the CRUD layer                                                *)
(***************************************************************************)
\* two completed updateRecord calls with optimisticLocking that named the same
\* row and supplied the same version
SameStaleVersion(c, d) ==
    /\ c # d
    /\ result[c].op = "updateRecord"
    /\ result[d].op = "updateRecord"
    /\ result[c].optimisticLocking
    /\ result[d].optimisticLocking
    /\ result[c].id = result[d].id
    /\ result[c].version = result[d].version

C9_SecondSoftDeleteKeepsFirstTimestamp ==
    \A id \in Ids :
        (deleteCalls[id] >= 2 /\ rows[id].exists) => rows[id].deleted_at = firstDelete[id]

\* C10: after deleteRecord(users, {id}) without a softDelete option the row
\* exists with deleted_at set; a findWhere(users, {id}) after it returns the
\* row with includeSoftDeleted true and does not return it by default.
C10_SoftDeletedRowHiddenByDefault ==
    /\ \A id \in Ids : (defaultDeleted[id] /\ rows[id].exists) => rows[id].deleted_at # 0
    /\ \A c \in Callers :
          (result[c].op = "findWhere" /\ result[c].afterDelete # {}) =>
              /\ ~result[c].threw
              /\ result[c].includeSoftDeleted = "true" =>
                    result[c].afterDelete \subseteq result[c].returned
              /\ result[c].includeSoftDeleted = "null" =>
                    result[c].afterDelete \cap result[c].returned = {}


\* a completed call whose statement the server executed and that matched no row
MatchedNoRow(c, op) ==
    /\ result[c].op = op
    /\ result[c].error \notin {BindMessage, ForceMessage}
    /\ result[c].returned = {}

\* C14: whenever updateRecord's UPDATE matches no row (the record is absent or
\* its version differs) the call throws "No records updated", invalidateCache
\* is not called and no row is returned.
C14_UpdateOfNoRowThrows ==
    \A c \in Callers :
        MatchedNoRow(c, "updateRecord") =>
            /\ result[c].threw
            /\ result[c].error = "No records updated"
            /\ ~result[c].invalidated

\* an update whose record was deleted while the statement was on its way
C14_Witness ==
    \E c \in Callers :
        /\ MatchedNoRow(c, "updateRecord")
        /\ ~rows[result[c].id].exists
        /\ result[c].threw
        /\ ~result[c].invalidated

\* C15: whenever deleteRecord's statement (soft-delete UPDATE or DELETE)
\* matches no row the call throws "No records updated" instead of returning.
C15_DeleteOfNoRowThrows ==
    \A c \in Callers :
        MatchedNoRow(c, "deleteRecord") =>
            /\ result[c].threw
            /\ result[c].error = "No records updated"

\* a deleteRecord without conditions whose statement is on its way
ForcedDelete(c) == call[c].op = "deleteRecord" /\ call[c].where = <<>>

\* C16: deleteRecord with an empty where object and force not true throws
\* before any schema lookup, statement or invalidation: the table, the cache
\* and the schema cache are as before and nothing is in flight; no statement
\* without conditions is ever sent unless force is true, and with force true
\* the statement reaches every row (every live row in soft-delete mode).
C16_EmptyWhereNeedsForce ==
    /\ [](\A c \in Callers : ForcedDelete(c) => call[c].forced)
    /\ [][\A c \in Callers :
            /\ (result'[c] # result[c] /\ result'[c].error = ForceMessage)
                  => /\ rows' = rows
                     /\ store' = store
                     /\ schemaCache' = schemaCache
                     /\ call' = call
            /\ (ForcedDelete(c) /\ call'[c] = Idle)
                  => \A id \in Ids :
                        rows[id].exists =>
                            IF UseSoftDelete(SchemaOf("users"), call[c].softDelete)
                            THEN (rows[id].deleted_at = 0 \/ rows[id].deleted_at > now)
                                    => rows'[id].deleted_at = now
                            ELSE ~rows'[id].exists
       ]_vars

\* p was refused, q forced the delete of every row
C16_Witness ==
    /\ result["p"].op = "deleteRecord"
    /\ result["p"].error = ForceMessage
    /\ result["q"].op = "deleteRecord"
    /\ ~result["q"].threw
    /\ result["q"].returned = Ids
    /\ \A id \in Ids : ~rows[id].exists

(***************************************************************************)
(* The statements the CRUD functions and the query builder emit, for every *)
(* table of the catalog and every argument (SpecBuild).  A call is one     *)
(* step: the statement is built, sent, answered, and the cache invalidated;*)
(* every behaviour is one call made from the initial state.                *)
(***************************************************************************)
BuildTables == {"users", "logs", "docs"}

\* the value new Date() gives, and the timestamps a caller passes (0: null)
CallerTimes == {0, 7}

\* {key: value} when present, {} when not
Opt(key, present, value) == IF present THEN << <<key, value>> >> ELSE <<>>

\* data objects: a known column, an unknown one, timestamps absent, null or set
DataObjects ==
    { Opt("email", e, "a") \o Opt("nickname", n, "nick")
        \o Opt("created_at", c # -1, c) \o Opt("updated_at", u # -1, u) :
      e \in BOOLEAN, n \in BOOLEAN, c \in CallerTimes \cup {-1}, u \in CallerTimes \cup {-1} }

\* schema.columns[key] with every key passing
AnyColumn(schema, key) == TRUE

\* schema.columns[key]
KnownColumn(schema, key) == key \in schema.columns

FilterColumns(schema, obj) ==
    LET known(kv) == KnownColumn(schema, kv[1]) IN SelectSeq(obj, known)

\* PostgreSQL takes the statement: the values bound match the placeholders
\* and an INSERT names at least one column
Accepts(stmt) == ~BindError(stmt) /\ (stmt.kind = "INSERT" => stmt.set # <<>>)

\* insertRecord(table, data, {validate}): the outcome, the statements sent
\* and whether invalidateCache ran
InsertRecord(schema, data, validate, date) ==
    LET filtered == FilterColumns(schema, data)
        created == IF schema.hasCreatedAt /\ ~Truthy(filtered, "created_at")
                   THEN Put(filtered, "created_at", date)
                   ELSE filtered
        validData == IF schema.hasUpdatedAt /\ ~Truthy(created, "updated_at")
                     THEN Put(created, "updated_at", date)
                     ELSE created
        stmt == [kind |-> "INSERT",
                 set |-> [i \in 1..Len(validData) |-> Term(validData[i][1], Param(i))],
                 where |-> <<>>,
                 guard |-> FALSE,
                 params |-> Values(validData)]
    IN  IF validate /\ data = <<>>
        THEN [threw |-> TRUE, error |-> "Insert data cannot be empty",
              sent |-> <<>>, invalidated |-> FALSE]
        ELSE IF ~Accepts(stmt)
        THEN [threw |-> TRUE, error |-> "syntax error", sent |-> <<stmt>>,
              invalidated |-> FALSE]
        ELSE [threw |-> FALSE, error |-> "none", sent |-> <<stmt>>, invalidated |-> TRUE]

BuildOnly == UNCHANGED <<txVars, sqlVars, tagsOf, clean, schemaCache, dbData, last, raceVars>>

BuildInit ==
    /\ CacheQuiet
    /\ TxQuiet
    /\ SqlQuiet

InsertRecordBuild(t, data, validate) ==
    LET out == InsertRecord(LoadSchema(t), data, validate, now)
    IN  /\ built = Idle
        /\ built' = [op |-> "insertRecord", table |-> t, data |-> data,
                     validate |-> validate, out |-> out]
        /\ store' = IF out.invalidated THEN InvalidateCache(store, TRUE, t, "insert")
                    ELSE store
        /\ BuildOnly

\* updateRecord(t, {email, [versionColumn: v]}, {id: 1}, {optimisticLocking,
\* versionColumn}); matched is whether the UPDATE finds a row
VersionColumns == {"version", "rev"}
StaleVersions == {0, 2}

UpdateRecordBuild(t, withVersion, v, optimisticLocking, versionColumn, matched) ==
    LET data == << <<"email", "new">> >> \o Opt(versionColumn, withVersion, v)
        stmt == UpdateStatement(LoadSchema(t), data, << <<"id", 1>> >>,
                                optimisticLocking, versionColumn, now)
        threw == ~Accepts(stmt) \/ ~matched
    IN  /\ built = Idle
        /\ built' = [op |-> "updateRecord", table |-> t, data |-> data,
                     optimisticLocking |-> optimisticLocking,
                     versionColumn |-> versionColumn,
                     out |-> [threw |-> threw,
                              error |-> IF ~Accepts(stmt) THEN "syntax error"
                                        ELSE IF ~matched THEN "No records updated"
                                        ELSE "none",
                              sent |-> <<stmt>>,
                              invalidated |-> ~threw]]
        /\ store' = IF ~threw THEN InvalidateCache(store, TRUE, t, "update") ELSE store
        /\ BuildOnly

\* JavaScript's null where a number is expected
JsNull == -1

\* Math.ceil(a / b) computed as the floor
FloorDiv(a, b) == a \div b

\* Math.ceil(a / b) for a >= 0, b >= 1
CeilDiv(a, b) == (a + b - 1) \div b

\* the maxLimit option of the calls
MaxLimits == {2, 3}

\* paginatedQuery(baseQuery, [], {page, limit, includeCount, maxLimit}) over a
\* base query that selects n rows; inTime is whether the queries are answered
\* before the timeout
PaginatedQuery(n, page, limit, includeCount, maxLimit, inTime) ==
    LET validatedPage == Max(1, page)
        validatedLimit == Min(Max(1, limit), maxLimit)
        offset == (validatedPage - 1) * validatedLimit
        countQuery == [kind |-> "COUNT", set |-> <<>>, where |-> <<>>, guard |-> FALSE,
                       params |-> <<>>]
        total == IF includeCount THEN n ELSE 0
        dataQuery == [kind |-> "SELECT", set |-> <<>>,
                      where |-> <<Term("LIMIT", Param(1)), Term("OFFSET", Param(2))>>,
                      guard |-> FALSE,
                      params |-> <<validatedLimit, offset>>]
        dataRows == Min(validatedLimit, Max(0, n - offset))
        sent == (IF includeCount THEN <<countQuery>> ELSE <<>>) \o <<dataQuery>>
    IN  IF ~inTime
        THEN [threw |-> TRUE, error |-> "Query timeout", sent |-> sent,
              invalidated |-> FALSE]
        ELSE [threw |-> FALSE, error |-> "none", sent |-> sent, invalidated |-> FALSE,
              data |-> dataRows,
              pagination |->
                 [page |-> validatedPage,
                  limit |-> validatedLimit,
                  total |-> total,
                  totalPages |-> IF includeCount THEN CeilDiv(total, validatedLimit)
                                 ELSE JsNull,
                  hasNextPage |-> IF includeCount
                                  THEN validatedPage < CeilDiv(total, validatedLimit)
                                  ELSE dataRows = validatedLimit,
                  hasPrevPage |-> validatedPage > 1,
                  offset |-> offset]]

PaginatedQueryBuild(n, page, limit, includeCount, maxLimit, inTime) ==
    /\ built = Idle
    /\ built' = [op |-> "paginatedQuery", n |-> n, page |-> page, limit |-> limit,
                 includeCount |-> includeCount, maxLimit |-> maxLimit,
                 out |-> PaginatedQuery(n, page, limit, includeCount, maxLimit, inTime)]
    /\ UNCHANGED store
    /\ BuildOnly

\* where objects: a known column, an unknown one, a qualified one; each
\* absent, a scalar, null or an array
ValueChoices == {"absent", "scalar", "null", "array"}
OptValue(key, choice) ==
    CASE choice = "scalar" -> << <<key, Scalar(5)>> >>
      [] choice = "null" -> << <<key, NullValue>> >>
      [] choice = "array" -> << <<key, Array(<<6, 7>>)>> >>
      [] OTHER -> <<>>
WhereObjects ==
    { OptValue("id", a) \o OptValue("nickname", b) \o OptValue("email", c)
        \o OptValue("u.id", d) : a \in ValueChoices, b \in ValueChoices,
                                  c \in ValueChoices, d \in ValueChoices }

\* what the server answers to a read: a bind error, an unknown column, or rows
ReadOutcome(schema, stmt) ==
    LET undefinedColumn == stmt.guard /\ ~schema.hasDeletedAt
    IN  [threw |-> ~Accepts(stmt) \/ undefinedColumn,
         error |-> IF ~Accepts(stmt) THEN BindMessage
                   ELSE IF undefinedColumn THEN "column deleted_at does not exist"
                   ELSE "none",
         sent |-> <<stmt>>,
         invalidated |-> FALSE]

\* advancedQuery(t, {where, includeSoftDeleted})
AdvancedQueryBuild(t, where, includeSoftDeleted) ==
    LET stmt == SelectStatement(LoadSchema(t), where, includeSoftDeleted)
    IN  /\ built = Idle
        /\ built' = [op |-> "advancedQuery", table |-> t, where |-> where,
                     includeSoftDeleted |-> includeSoftDeleted,
                     out |-> ReadOutcome(LoadSchema(t), stmt)]
        /\ UNCHANGED store
        /\ BuildOnly

\* countRecords(t, conditions, {includeSoftDeleted, useCache: false})
CountRecordsBuild(t, conditions, includeSoftDeleted) ==
    LET stmt == CountStatement(LoadSchema(t), conditions, includeSoftDeleted)
    IN  /\ built = Idle
        /\ built' = [op |-> "countRecords", table |-> t, where |-> conditions,
                     includeSoftDeleted |-> includeSoftDeleted,
                     out |-> ReadOutcome(LoadSchema(t), stmt)]
        /\ UNCHANGED store
        /\ BuildOnly

\* executeFullTextSearch(t, term, {searchColumns, includeSoftDeleted}): the
\* term is $1, the rank floor, LIMIT and OFFSET are written `${paramIndex++}`
SearchColumn(t) == IF t = "logs" THEN "message" ELSE "email"

SearchStatement(schema, searchColumn, includeSoftDeleted) ==
    [kind |-> "SEARCH",
     set |-> <<>>,
     where |-> <<Term(searchColumn, Param(1)), Term("ts_rank", QueryPlaceholder(2)),
                 Term("LIMIT", QueryPlaceholder(3)), Term("OFFSET", Literal(4))>>,
     guard |-> ShouldFilterSoftDeleted(schema, includeSoftDeleted),
     params |-> <<"term", 1, 50, 0>>]

FullTextSearchBuild(t, includeSoftDeleted) ==
    LET stmt == SearchStatement(LoadSchema(t), SearchColumn(t), includeSoftDeleted)
    IN  /\ built = Idle
        /\ built' = [op |-> "executeFullTextSearch", table |-> t,
                     includeSoftDeleted |-> includeSoftDeleted,
                     out |-> ReadOutcome(LoadSchema(t), stmt)]
        /\ UNCHANGED store
        /\ BuildOnly

\* ---- ON CONFLICT: upsertRecord, insertRecord with onConflict ----
\* Object.keys(validData) of a built INSERT
SetNames(stmt) == [i \in 1..Len(stmt.set) |-> stmt.set[i].col]

Excluded(col) == [type |-> "excluded", k |-> col]   \* the text EXCLUDED.col

\* the conflictColumns argument: null, or an array of column names
NotGiven == [given |-> FALSE, cols |-> <<>>]
Given(cols) == [given |-> TRUE, cols |-> cols]
ConflictChoices ==
    {NotGiven, Given(<<"id">>), Given(<<"email">>), Given(<<"nickname">>),
     Given(<<"updated_at">>)}
ExcludeChoices == {<<>>, <<"email">>, <<"updated_at">>}

UpsertData ==
    { Opt("id", i, 1) \o Opt("email", e, "a") \o Opt("nickname", n, "nick")
        \o Opt("updated_at", u # -1, u) :
      i \in BOOLEAN, e \in BOOLEAN, n \in BOOLEAN, u \in CallerTimes \cup {-1} }

\* conflictColumns || schema.primaryKey || ['id']
ResolvedConflictColumns(schema, conflictColumns) ==
    IF conflictColumns.given THEN conflictColumns.cols
    ELSE IF schema.primaryKey # <<>> THEN schema.primaryKey
    ELSE <<"id">>

\* PostgreSQL rejects a SET list that is empty or assigns a column twice
OneAssignmentEach(terms) ==
    \A i, j \in 1..Len(terms) : terms[i].col = terms[j].col => i = j

AcceptsUpsert(stmt) ==
    /\ Accepts(stmt)
    /\ stmt.action = "update" => (stmt.update # <<>> /\ OneAssignmentEach(stmt.update))

\* columns.filter(col => !conflict.includes(col) && !exclude.includes(col))
UpdateColumns(columns, conflict, exclude) ==
    LET keep(col) == col \notin Range(conflict) /\ col \notin Range(exclude)
    IN  SelectSeq(columns, keep)

ExcludedTerms(columns) == [i \in 1..Len(columns) |-> Term(columns[i], Excluded(columns[i]))]

\* upsertRecord(table, data, conflictColumns, {excludeFromUpdate})
UpsertRecord(schema, data, conflictColumns, excludeFromUpdate, date) ==
    LET resolved == ResolvedConflictColumns(schema, conflictColumns)
        filtered == FilterColumns(schema, data)
        created == IF schema.hasCreatedAt /\ ~Truthy(filtered, "created_at")
                   THEN Put(filtered, "created_at", date)
                   ELSE filtered
        validData == IF schema.hasUpdatedAt /\ ~Truthy(created, "updated_at")
                     THEN Put(created, "updated_at", date)
                     ELSE created
        updateColumns == UpdateColumns(Keys(validData), resolved, excludeFromUpdate)
        stamp == IF schema.hasUpdatedAt /\ "updated_at" \notin Range(excludeFromUpdate)
                 THEN <<Term("updated_at", NowFn)>>
                 ELSE <<>>
        stmt == [kind |-> "INSERT",
                 set |-> [i \in 1..Len(validData) |-> Term(validData[i][1], Literal(i))],
                 where |-> <<>>,
                 guard |-> FALSE,
                 params |-> Values(validData),
                 conflict |-> resolved,
                 action |-> "update",
                 update |-> stamp \o ExcludedTerms(updateColumns)]
    IN  IF \E i \in 1..Len(resolved) : ~KnownColumn(schema, resolved[i])
        THEN [threw |-> TRUE, error |-> "Conflict column not found", sent |-> <<>>,
              invalidated |-> FALSE]
        ELSE IF ~AcceptsUpsert(stmt)
        THEN [threw |-> TRUE, error |-> "syntax error", sent |-> <<stmt>>,
              invalidated |-> FALSE]
        ELSE [threw |-> FALSE, error |-> "none", sent |-> <<stmt>>, invalidated |-> TRUE]

UpsertRecordBuild(t, data, conflictColumns, excludeFromUpdate) ==
    LET out == UpsertRecord(LoadSchema(t), data, conflictColumns, excludeFromUpdate, now)
    IN  /\ built = Idle
        /\ built' = [op |-> "upsertRecord", table |-> t, data |-> data,
                     conflictColumns |-> conflictColumns,
                     excludeFromUpdate |-> excludeFromUpdate, out |-> out]
        /\ store' = IF out.invalidated THEN InvalidateCache(store, TRUE, t, "upsert")
                    ELSE store
        /\ BuildOnly

\* the ON CONFLICT clause insertRecord appends: none unless both options are
\* given; DO NOTHING; or DO UPDATE SET of the non-conflict columns, with
\* `updated_at = NOW(), ` spliced in front when the schema has updated_at
InsertConflictClause(schema, columns, onConflict, conflictColumns) ==
    LET resolved == ResolvedConflictColumns(schema, conflictColumns)
        updateSet == ExcludedTerms(UpdateColumns(columns, resolved, <<>>))
    IN  IF onConflict = "null" \/ ~conflictColumns.given
        THEN [conflict |-> <<>>, action |-> "none", update |-> <<>>]
        ELSE IF onConflict = "ignore"
        THEN [conflict |-> resolved, action |-> "nothing", update |-> <<>>]
        ELSE IF onConflict = "update" /\ updateSet # <<>>
        THEN [conflict |-> resolved, action |-> "update",
              update |-> IF schema.hasUpdatedAt
                         THEN <<Term("updated_at", NowFn)>> \o updateSet
                         ELSE updateSet]
        ELSE [conflict |-> <<>>, action |-> "none", update |-> <<>>]

\* insertRecord(table, data, {onConflict, conflictColumns})
InsertRecordOnConflict(schema, data, onConflict, conflictColumns, date) ==
    LET plain == InsertRecord(schema, data, TRUE, date)
        clause == InsertConflictClause(schema, SetNames(plain.sent[1]), onConflict,
                                       conflictColumns)
        stmt == [kind |-> "INSERT",
                 set |-> plain.sent[1].set,
                 where |-> <<>>,
                 guard |-> FALSE,
                 params |-> plain.sent[1].params,
                 conflict |-> clause.conflict,
                 action |-> clause.action,
                 update |-> clause.update]
    IN  IF plain.sent = <<>> THEN plain
        ELSE IF ~AcceptsUpsert(stmt)
        THEN [threw |-> TRUE, error |-> "syntax error", sent |-> <<stmt>>,
              invalidated |-> FALSE]
        ELSE [threw |-> FALSE, error |-> "none", sent |-> <<stmt>>, invalidated |-> TRUE]

OnConflictChoices == {"null", "ignore", "update"}

InsertRecordOnConflictBuild(t, data, onConflict, conflictColumns) ==
    LET out == InsertRecordOnConflict(LoadSchema(t), data, onConflict, conflictColumns, now)
    IN  /\ built = Idle
        /\ built' = [op |-> "insertRecord onConflict", table |-> t, data |-> data,
                     onConflict |-> onConflict, conflictColumns |-> conflictColumns,
                     out |-> out]
        /\ store' = IF out.invalidated THEN InvalidateCache(store, TRUE, t, "insert")
                    ELSE store
        /\ BuildOnly

BuildNext ==
    \/ \E t \in BuildTables, data \in DataObjects, validate \in BOOLEAN :
          InsertRecordBuild(t, data, validate)
    \/ \E t \in BuildTables, where \in WhereObjects, includeSoftDeleted \in Tri :
          AdvancedQueryBuild(t, where, includeSoftDeleted)
    \/ \E t \in BuildTables, conditions \in WhereObjects, includeSoftDeleted \in Tri :
          CountRecordsBuild(t, conditions, includeSoftDeleted)
    \/ \E t \in BuildTables, includeSoftDeleted \in Tri :
          FullTextSearchBuild(t, includeSoftDeleted)
    \/ \E n \in 0..MaxDataset, page \in -1..MaxPage, limit \in -1..MaxLimit,
          includeCount \in BOOLEAN, maxLimit \in MaxLimits, inTime \in BOOLEAN :
          PaginatedQueryBuild(n, page, limit, includeCount, maxLimit, inTime)
    \/ \E t \in BuildTables, withVersion \in BOOLEAN, v \in StaleVersions,
          optimisticLocking \in BOOLEAN, versionColumn \in VersionColumns,
          matched \in BOOLEAN :
          UpdateRecordBuild(t, withVersion, v, optimisticLocking, versionColumn, matched)
    \/ \E t \in BuildTables, data \in UpsertData, conflictColumns \in ConflictChoices,
          excludeFromUpdate \in ExcludeChoices :
          UpsertRecordBuild(t, data, conflictColumns, excludeFromUpdate)
    \/ \E t \in BuildTables, data \in UpsertData, onConflict \in OnConflictChoices,
          conflictColumns \in ConflictChoices :
          InsertRecordOnConflictBuild(t, data, onConflict, conflictColumns)

SpecBuild == BuildInit /\ [][BuildNext]_vars

(***************************************************************************)
(* Claims about the emitted statements (SpecBuild)                         *)
(***************************************************************************)
SetColumns(stmt) == {stmt.set[i].col : i \in 1..Len(stmt.set)}
SetValue(stmt, col) ==
    RhsValue(stmt, stmt.set[CHOOSE i \in 1..Len(stmt.set) : stmt.set[i].col = col].rhs, now)

\* the INSERT carries the column with the library's new Date()
LibraryStamped(stmt, data, col) ==
    /\ col \in SetColumns(stmt)
    /\ SetValue(stmt, col) = now
    /\ ~(Has(data, col) /\ Get(data, col) = now)

InsertSent == built.op = "insertRecord" /\ built.out.sent # <<>>

C12_NoColumnLeftFailsBeforeInsert ==
    (built.op = "insertRecord" /\ FilterColumns(LoadSchema(built.table), built.data) = <<>>)
        => /\ built.out.threw
           /\ built.out.error = "Insert data cannot be empty"
           /\ built.out.sent = <<>>
           /\ ~built.out.invalidated

WhereTerms(stmt, col) == {i \in 1..Len(stmt.where) : stmt.where[i].col = col}

\* C13: updateRecord with optimisticLocking and a version v in data under the
\* configured versionColumn (a column of the table, whatever its name) emits
\* `versionColumn = v` in the WHERE clause and `versionColumn = v + 1` in the
\* SET clause.
C13_LockAppliedForAnyVersionColumn ==
    (/\ built.op = "updateRecord"
     /\ built.optimisticLocking
     /\ Has(built.data, built.versionColumn)
     /\ built.versionColumn \in CatalogColumns(built.table))
        => LET stmt == built.out.sent[1]
               v == Get(built.data, built.versionColumn)
           IN  /\ \E i \in WhereTerms(stmt, built.versionColumn) :
                     RhsValue(stmt, stmt.where[i].rhs, now) = v
               /\ built.versionColumn \in SetColumns(stmt)
               /\ SetValue(stmt, built.versionColumn) = v + 1

\* C17: the query builder (advancedQuery, countRecords, executeFullTextSearch)
\* emits the soft-delete condition exactly when the table has a deleted_at
\* column and the caller did not ask for soft-deleted rows; on a table without
\* deleted_at it never emits it, whatever includeSoftDeleted is.
C17_SoftDeleteFilterIffDeletedAtColumn ==
    built.op \in {"advancedQuery", "countRecords", "executeFullTextSearch"} =>
        (built.out.sent[1].guard <=>
            ("deleted_at" \in CatalogColumns(built.table) /\ built.includeSoftDeleted # "true"))

\* the right-hand sides that stand for a bound value, in emission order
RECURSIVE ValueSlots(_)
ValueSlots(terms) ==
    IF terms = <<>> THEN <<>>
    ELSE (CASE Head(terms).rhs.type = "list" -> Head(terms).rhs.items
            [] Head(terms).rhs.type = "isnull" -> <<>>
            [] OTHER -> <<Head(terms).rhs>>) \o ValueSlots(Tail(terms))

\* the non-null values of the conditions on known or qualified columns
RECURSIVE FilterValues(_, _)
FilterValues(where, columns) ==
    IF where = <<>> THEN <<>>
    ELSE (IF Head(where)[1] \in columns \cup QualifiedKeys
          THEN Head(where)[2].items ELSE <<>>) \o FilterValues(Tail(where), columns)

\* C18: for every where object given to advancedQuery, every non-null value of
\* a condition on a known or qualified column is bound, not written into the
\* text: the text has the placeholders $1..$n, one per value in emission order
\* (one per element of an array), n is the length of the argument list, and a
\* condition on an unknown unqualified column adds neither.
C18_OnePlaceholderPerBoundValue ==
    built.op = "advancedQuery" =>
        LET stmt == built.out.sent[1]
            slots == ValueSlots(stmt.where)
        IN  /\ stmt.params = FilterValues(built.where, CatalogColumns(built.table))
            /\ Len(slots) = Len(stmt.params)
            /\ \A i \in 1..Len(slots) : slots[i] = Param(i)

\* a paginatedQuery call that returned
Paginated(includeCount) ==
    /\ built.op = "paginatedQuery"
    /\ built.includeCount = includeCount
    /\ ~built.out.threw

\* C19: paginatedQuery with includeCount true over a dataset of n rows, for
\* every requested page and limit: the page is at least 1, the limit L is
\* between 1 and maxLimit, the offset (page - 1) * L, totalPages is the least
\* number of pages of L rows that hold n rows, hasNextPage is true exactly on
\* the pages before the last and hasPrevPage exactly on the pages after the
\* first.
C19_PaginationArithmetic ==
    Paginated(TRUE) =>
        LET pg == built.out.pagination
        IN  /\ pg.page = (IF built.page >= 1 THEN built.page ELSE 1)
            /\ pg.limit >= 1 /\ pg.limit <= built.maxLimit
            /\ (built.limit >= 1 /\ built.limit <= built.maxLimit) => pg.limit = built.limit
            /\ pg.offset = (pg.page - 1) * pg.limit
            /\ pg.total = built.n
            /\ pg.totalPages * pg.limit >= built.n
            /\ pg.totalPages >= 0
            /\ pg.totalPages > 0 => (pg.totalPages - 1) * pg.limit < built.n
            /\ pg.hasNextPage <=> pg.page < pg.totalPages
            /\ pg.hasPrevPage <=> pg.page > 1

\* a middle page of a dataset whose last page is not full, with the requested
\* limit clamped to maxLimit
C19_Witness ==
    /\ Paginated(TRUE)
    /\ built.n = 7
    /\ built.limit > built.maxLimit
    /\ built.out.pagination.limit = 3
    /\ built.out.pagination.page = 2
    /\ built.out.pagination.totalPages = 3
    /\ built.out.pagination.hasNextPage
    /\ built.out.pagination.hasPrevPage
    /\ Len(built.out.sent) = 2

\* C20: paginatedQuery with includeCount false sends no COUNT query, returns
\* total and totalPages as null, and hasNextPage is true exactly when the data
\* query returned limit rows.
C20_NoCountMeansNullTotals ==
    Paginated(FALSE) =>
        /\ \A i \in 1..Len(built.out.sent) : built.out.sent[i].kind # "COUNT"
        /\ built.out.pagination.total = JsNull
        /\ built.out.pagination.totalPages = JsNull
        /\ built.out.pagination.hasNextPage <=> (built.out.data = built.out.pagination.limit)

(***************************************************************************)
(* Concurrent requests.  Node runs one continuation at a time; requests    *)
(* interleave at their awaits.  One action per await: the action is what   *)
(* Redis or PostgreSQL does with the request sent, or the continuation     *)
(* that runs when the answer arrives.                                      *)
(***************************************************************************)
MaxRaceTime == 2    \* clock ticks
MaxRaceCalls == 3   \* calls started by the concurrent requests

\* the clock advances in steps of cacheTTL (300 s)
TickSeconds == 300
TtlTicks(ttl) == ttl \div TickSeconds

RaceTable == "users"
RaceSchemaKey == SchemaKey(RaceTable)
RaceQueryKey == QueryKey(RaceTable, 1)
RaceTagKey == TagKey(TableTag(RaceTable))

\* Redis drops a key whose TTL has run out
NeverExpired(e, k, t) == FALSE

Expired(e, k, t) == e[k] <= t

\* SETEX key ttl: the keys just written expire ttl from now
Stamp(e, s, keys, ttl, t) ==
    [k \in DOMAIN s |-> IF k \in keys THEN t + TtlTicks(ttl) ELSE e[k]]

\* the ghost mark travels with the schema from one holder to the next
Carry(marked, from, to) ==
    IF from \in marked THEN marked \cup {to} ELSE marked \ {to}

Free(p) == proc[p].pc \in {"none", "done"}
Running(p, op, pc) == proc[p].op = op /\ proc[p].pc = pc
WriteInFlight == \E q \in Procs : proc[q].op = "write" /\ proc[q].pc # "none"
Begin(p) ==
    /\ Free(p)
    /\ raceCalls < MaxRaceCalls
    /\ raceCalls' = raceCalls + 1

RaceOnly == UNCHANGED <<txVars, sqlVars, built, tagsOf, clean, last>>

RaceInit ==
    /\ TxQuiet
    /\ SqlQuiet
    /\ store = EmptyFn
    /\ tagsOf = EmptyFn
    /\ clean = TRUE
    /\ schemaCache = EmptyFn
    /\ dbData = [t \in Tables |-> 0]
    /\ last = Idle

\* ---- getTableSchema(RaceTable) ----
\* the synchronous part: the local map answers, or cacheService.get is sent
LoadStart(p) ==
    /\ Begin(p)
    /\ proc' = [proc EXCEPT ![p] =
                  IF RaceSchemaKey \in DOMAIN schemaCache
                  THEN Rest
                  ELSE [op |-> "load", pc |-> "get"]]
    /\ UNCHANGED <<store, schemaCache, dbData, expires, preClear, raceNow>>
    /\ RaceOnly

\* Redis answers the GET
LoadGet(p, up) ==
    LET cached == CacheServiceGet(store, up, RaceSchemaKey)
    IN  /\ Running(p, "load", "get")
        /\ proc' = [proc EXCEPT ![p] = [op |-> "load", pc |-> "gotten", held |-> cached]]
        /\ preClear' = IF cached # Null THEN Carry(preClear, "external", p) ELSE preClear
        /\ UNCHANGED <<store, schemaCache, dbData, expires, raceNow, raceCalls>>
        /\ RaceOnly

\* the continuation after cacheService.get: install the hit locally and
\* return, or send the columns query
LoadResume(p) ==
    LET hit == ExternalHit(proc[p].held)
    IN  /\ Running(p, "load", "gotten")
        /\ schemaCache' = IF hit
                          THEN [k \in DOMAIN schemaCache \cup {RaceSchemaKey} |->
                                  IF k = RaceSchemaKey THEN proc[p].held.v
                                  ELSE schemaCache[k]]
                          ELSE schemaCache
        /\ proc' = [proc EXCEPT ![p] = IF hit THEN Rest
                                       ELSE [op |-> "load", pc |-> "columns"]]
        /\ preClear' = IF hit THEN Carry(preClear, p, "local") \ {p} ELSE preClear
        /\ UNCHANGED <<store, dbData, expires, raceNow, raceCalls>>
        /\ RaceOnly

\* PostgreSQL answers the columns query; the continuation builds the schema
\* and sends the primary-key query
LoadColumns(p) ==
    /\ Running(p, "load", "columns")
    /\ proc' = [proc EXCEPT ![p] =
                  [op |-> "load", pc |-> "pk",
                   held |-> [LoadSchema(RaceTable) EXCEPT !.primaryKey = <<>>]]]
    /\ preClear' = preClear \ {p}
    /\ UNCHANGED <<store, schemaCache, dbData, expires, raceNow, raceCalls>>
    /\ RaceOnly

\* PostgreSQL answers the primary-key query; the continuation sends
\* cacheService.set
LoadPk(p) ==
    /\ Running(p, "load", "pk")
    /\ proc' = [proc EXCEPT ![p] =
                  [op |-> "load", pc |-> "set",
                   held |-> [proc[p].held EXCEPT !.primaryKey = CatalogPrimaryKey(RaceTable)]]]
    /\ UNCHANGED <<store, schemaCache, dbData, expires, preClear, raceNow, raceCalls>>
    /\ RaceOnly

\* Redis runs the SETEX (or fails: cacheService.set rethrows and
\* getTableSchema throws without touching the local map)
LoadSet(p, up) ==
    LET r == CacheServiceSet(store, up, RaceSchemaKey, JsonSchema(proc[p].held),
                             SchemaTTL, <<>>)
    IN  /\ Running(p, "load", "set")
        /\ store' = r.store
        /\ expires' = IF r.threw THEN expires
                      ELSE Stamp(expires, r.store, {GenerateKey(RaceSchemaKey)},
                                 SchemaTTL, raceNow)
        /\ proc' = [proc EXCEPT ![p] = IF r.threw THEN Rest
                                       ELSE [@ EXCEPT !.pc = "stored"]]
        /\ preClear' = IF r.threw THEN preClear \ {p} ELSE Carry(preClear, p, "external")
        /\ UNCHANGED <<schemaCache, dbData, raceNow, raceCalls>>
        /\ RaceOnly

\* the continuation after cacheService.set: schemaCache.set and return
LoadInstall(p) ==
    /\ Running(p, "load", "stored")
    /\ schemaCache' = [k \in DOMAIN schemaCache \cup {RaceSchemaKey} |->
                         IF k = RaceSchemaKey THEN proc[p].held ELSE schemaCache[k]]
    /\ proc' = [proc EXCEPT ![p] = Rest]
    /\ preClear' = Carry(preClear, p, "local") \ {p}
    /\ UNCHANGED <<store, dbData, expires, raceNow, raceCalls>>
    /\ RaceOnly

\* ---- clearSchemaCache(RaceTable) ----
\* whoever holds a schema now holds one read before this clear began
HoldsSchema(q) ==
    /\ proc[q].op = "load"
    /\ \/ proc[q].pc \in {"pk", "set", "stored"}
       \/ proc[q].pc = "gotten" /\ proc[q].held # Null

\* the synchronous part: schemaCache.delete, then cacheService.delete is sent
ClearStart(p) ==
    /\ Begin(p)
    /\ schemaCache' = Restrict(schemaCache, DOMAIN schemaCache \ {RaceSchemaKey})
    /\ proc' = [proc EXCEPT ![p] = [op |-> "clear", pc |-> "del"]]
    /\ preClear' = {q \in Procs : HoldsSchema(q)}
                     \cup (IF GenerateKey(RaceSchemaKey) \in DOMAIN store
                           THEN {"external"} ELSE {})
    /\ UNCHANGED <<store, dbData, expires, raceNow>>
    /\ RaceOnly

\* Redis runs the DEL (or fails: CacheService.delete returns false)
ClearDelete(p, up) ==
    LET r == CacheServiceDelete(store, up, RaceSchemaKey)
    IN  /\ Running(p, "clear", "del")
        /\ store' = r.store
        /\ expires' = Restrict(expires, DOMAIN r.store)
        /\ proc' = [proc EXCEPT ![p] = Rest]
        /\ preClear' = IF up THEN preClear \ {"external"} ELSE preClear
        /\ UNCHANGED <<schemaCache, dbData, raceNow, raceCalls>>
        /\ RaceOnly

\* ---- advancedQuery(RaceTable, {useCache: true}), schema already local ----
\* the statement is built and cacheService.get is sent
ReadStart(p) ==
    /\ Begin(p)
    /\ proc' = [proc EXCEPT ![p] =
                  [op |-> "read", pc |-> "get", saw |-> dbData[RaceTable],
                   quiet |-> ~WriteInFlight]]
    /\ UNCHANGED <<store, schemaCache, dbData, expires, preClear, raceNow>>
    /\ RaceOnly

\* Redis answers the GET
ReadGet(p, up) ==
    /\ Running(p, "read", "get")
    /\ proc' = [proc EXCEPT ![p] =
                  [op |-> "read", pc |-> "gotten", saw |-> proc[p].saw,
                   quiet |-> proc[p].quiet,
                   held |-> CacheServiceGet(store, up, RaceQueryKey)]]
    /\ UNCHANGED <<store, schemaCache, dbData, expires, preClear, raceNow, raceCalls>>
    /\ RaceOnly

\* the continuation after cacheService.get: return the hit, or send the query
ReadResume(p) ==
    /\ Running(p, "read", "gotten")
    /\ proc' = [proc EXCEPT ![p] =
                  IF proc[p].held # Null
                  THEN [op |-> "read", pc |-> "done", saw |-> proc[p].saw,
                        quiet |-> proc[p].quiet, hit |-> TRUE, ret |-> proc[p].held]
                  ELSE [op |-> "read", pc |-> "query"]]
    /\ UNCHANGED <<store, schemaCache, dbData, expires, preClear, raceNow, raceCalls>>
    /\ RaceOnly

\* PostgreSQL answers the query; the continuation sends cacheService.set
ReadQuery(p) ==
    /\ Running(p, "read", "query")
    /\ proc' = [proc EXCEPT ![p] =
                  [op |-> "read", pc |-> "setkey",
                   held |-> JsonArray(<<dbData[RaceTable]>>)]]
    /\ UNCHANGED <<store, schemaCache, dbData, expires, preClear, raceNow, raceCalls>>
    /\ RaceOnly

\* Redis runs setCache's SETEX (or fails: advancedQuery throws)
ReadSetKey(p, up) ==
    LET cacheKey == GenerateKey(RaceQueryKey)
        s2 == SetCache(store, cacheKey, proc[p].held, QueryTTL)
    IN  /\ Running(p, "read", "setkey")
        /\ store' = IF up THEN s2 ELSE store
        /\ expires' = IF up THEN Stamp(expires, s2, {cacheKey}, QueryTTL, raceNow)
                      ELSE expires
        /\ proc' = [proc EXCEPT ![p] = IF up THEN [@ EXCEPT !.pc = "settags"] ELSE Rest]
        /\ UNCHANGED <<schemaCache, dbData, preClear, raceNow, raceCalls>>
        /\ RaceOnly

\* Redis runs setCacheMultiple's MULTI (or fails: advancedQuery throws);
\* the continuation returns result.rows
ReadSetTags(p, up) ==
    LET tagKeys == TagKeys(GenerateKey(RaceQueryKey), <<TableTag(RaceTable)>>)
        s2 == SetCacheMultiple(store, tagKeys, QueryTTL)
    IN  /\ Running(p, "read", "settags")
        /\ store' = IF up THEN s2 ELSE store
        /\ expires' = IF up THEN Stamp(expires, s2, DOMAIN tagKeys, QueryTTL, raceNow)
                      ELSE expires
        /\ proc' = [proc EXCEPT ![p] =
                      IF up THEN [op |-> "read", pc |-> "done", saw |-> dbData[RaceTable],
                                  quiet |-> FALSE, hit |-> FALSE, ret |-> proc[p].held]
                      ELSE Rest]
        /\ UNCHANGED <<schemaCache, dbData, preClear, raceNow, raceCalls>>
        /\ RaceOnly

\* ---- insertRecord(RaceTable, data), schema already local ----
\* the INSERT is sent
WriteStart(p) ==
    /\ Begin(p)
    /\ dbData[RaceTable] < MaxWrites
    /\ proc' = [proc EXCEPT ![p] = [op |-> "write", pc |-> "insert"]]
    /\ UNCHANGED <<store, schemaCache, dbData, expires, preClear, raceNow>>
    /\ RaceOnly

\* PostgreSQL commits the INSERT; the continuation calls invalidateCache,
\* which sends the GET of the table tag's index
WriteInsert(p) ==
    /\ Running(p, "write", "insert")
    /\ dbData' = [dbData EXCEPT ![RaceTable] = @ + 1]
    /\ proc' = [proc EXCEPT ![p] = [op |-> "write", pc |-> "index"]]
    /\ UNCHANGED <<store, schemaCache, expires, preClear, raceNow, raceCalls>>
    /\ RaceOnly

\* Redis answers the GET of the index (getCache: null when it fails)
WriteIndex(p, up) ==
    /\ Running(p, "write", "index")
    /\ proc' = [proc EXCEPT ![p] =
                  [op |-> "write", pc |-> "evict", held |-> GetCache(store, up, RaceTagKey)]]
    /\ UNCHANGED <<store, schemaCache, dbData, expires, preClear, raceNow, raceCalls>>
    /\ RaceOnly

\* Redis runs the DELs of the index's members and of the index (a failing
\* DEL ends invalidateByTags); the other two tags have no index; insertRecord
\* returns
WriteEvict(p, up) ==
    LET cachedKeys == proc[p].held
        s2 == IF up /\ cachedKeys # Null /\ cachedKeys.kind = "array"
              THEN DeleteCache(DeleteAll(store, cachedKeys.items), RaceTagKey)
              ELSE store
    IN  /\ Running(p, "write", "evict")
        /\ store' = s2
        /\ expires' = Restrict(expires, DOMAIN s2)
        /\ proc' = [proc EXCEPT ![p] = Rest]
        /\ UNCHANGED <<schemaCache, dbData, preClear, raceNow, raceCalls>>
        /\ RaceOnly

\* ---- time passes ----
RaceTick ==
    LET live == {k \in DOMAIN store : ~Expired(expires, k, raceNow + 1)}
    IN  /\ raceNow < MaxRaceTime
        /\ raceNow' = raceNow + 1
        /\ store' = Restrict(store, live)
        /\ expires' = Restrict(expires, live)
        /\ preClear' = IF GenerateKey(RaceSchemaKey) \in live THEN preClear
                       ELSE preClear \ {"external"}
        /\ UNCHANGED <<schemaCache, dbData, proc, raceCalls>>
        /\ RaceOnly

RaceNext ==
    \/ \E p \in Procs : LoadStart(p)
    \/ \E p \in Procs, up \in BOOLEAN : LoadGet(p, up)
    \/ \E p \in Procs : LoadResume(p)
    \/ \E p \in Procs : LoadColumns(p)
    \/ \E p \in Procs : LoadPk(p)
    \/ \E p \in Procs, up \in BOOLEAN : LoadSet(p, up)
    \/ \E p \in Procs : LoadInstall(p)
    \/ \E p \in Procs : ClearStart(p)
    \/ \E p \in Procs, up \in BOOLEAN : ClearDelete(p, up)
    \/ \E p \in Procs : ReadStart(p)
    \/ \E p \in Procs, up \in BOOLEAN : ReadGet(p, up)
    \/ \E p \in Procs : ReadResume(p)
    \/ \E p \in Procs : ReadQuery(p)
    \/ \E p \in Procs, up \in BOOLEAN : ReadSetKey(p, up)
    \/ \E p \in Procs, up \in BOOLEAN : ReadSetTags(p, up)
    \/ \E p \in Procs : WriteStart(p)
    \/ \E p \in Procs : WriteInsert(p)
    \/ \E p \in Procs, up \in BOOLEAN : WriteIndex(p, up)
    \/ \E p \in Procs, up \in BOOLEAN : WriteEvict(p, up)
    \/ RaceTick

SpecRace == RaceInit /\ [][RaceNext]_vars

(***************************************************************************)
(* Claims about concurrent requests (SpecRace)                             *)
(***************************************************************************)
AllCompleted == \A p \in Procs : Free(p)

\* C23: once every concurrent getTableSchema and clearSchemaCache on the table
\* has completed, neither the local map nor the external cache holds a schema
\* read from the catalog before the last clearSchemaCache began.
C23_NoPreClearSchemaSurvives ==
    AllCompleted => preClear \cap {"local", "external"} = {}

\* a read that began after every write and its invalidation had completed
\* and was served pre-write rows from the cache
StaleHit(p) ==
    /\ Running(p, "read", "done")
    /\ proc[p].hit
    /\ proc[p].quiet
    /\ proc[p].ret.items[1] < proc[p].saw

\* a step in which Redis answers a cached read's GET with an entry
ServedFromCache(p) ==
    /\ Running(p, "read", "get")
    /\ proc'[p].pc = "gotten"
    /\ proc'[p].held # Null

\* C27: a cached read running concurrently with a write and its invalidation
\* can leave the pre-write rows in the cache after the invalidation has
\* completed, and a later read returns them; the entry serving them was set
\* with the cache TTL, and no read is served from it at or after its expiry.
C27_StaleEntryServedOnlyUntilExpiry ==
    /\ [](\A k \in DOMAIN store :
            /\ k \in DOMAIN expires
            /\ raceNow < expires[k]
            /\ k = GenerateKey(RaceQueryKey) => expires[k] <= raceNow + TtlTicks(QueryTTL))
    /\ [][\A p \in Procs :
            ServedFromCache(p) => raceNow < expires[GenerateKey(RaceQueryKey)]]_vars

\* the invalidation has completed, the cache still holds the pre-write rows,
\* and a read begun afterwards has returned them
C27_Witness ==
    /\ ~WriteInFlight
    /\ \E p \in Procs : StaleHit(p) /\ CacheServiceGet(store, TRUE, RaceQueryKey) = proc[p].ret
    /\ dbData[RaceTable] > 0

(***************************************************************************)
(* findById (SpecFind).  utils/database.js and the older copy of it kept   *)
(* in the repository both export findById, import the same cacheService    *)
(* and write the same key; the two differ in the placeholders their        *)
(* advancedQuery writes.  The table's rows do not change here: some were   *)
(* soft-deleted before the calls begin.                                    *)
(***************************************************************************)
RecordTTL == 600

Copies == {"utils/database.js", "older copy"}

\* `record:${tableName}:${pkColumn}:${id}`
RecordKey(t, pkColumn, id) == <<"record", t, pkColumn, id>>

\* the text `$${paramIndex++}` of the older copy's query builder
OlderQueryPlaceholder(k) == Param(k)

OlderClause(term) ==
    CASE term.rhs.type = "literal" -> Term(term.col, OlderQueryPlaceholder(term.rhs.k))
      [] term.rhs.type = "list" ->
           Term(term.col, InList([i \in 1..Len(term.rhs.items) |->
                                    OlderQueryPlaceholder(term.rhs.items[i].k)]))
      [] OTHER -> term

\* the SELECT the older copy's advancedQuery sends
OlderSelectStatement(schema, conditions, includeSoftDeleted) ==
    LET stmt == SelectStatement(schema, conditions, includeSoftDeleted)
    IN  [stmt EXCEPT !.where = [i \in 1..Len(stmt.where) |-> OlderClause(stmt.where[i])]]

\* a row as the SELECT returns it
RowOf(table, id) == JsonValue([id |-> id, deleted_at |-> table[id].deleted_at])

SoftDeleted(record) == record.v.deleted_at # 0

\* findById: the record cache when enabled, then advancedQuery on the primary
\* key; a found row is cached.  Returns the store after the call, what the
\* caller received and whether it came from the cache.
FindById(copy, s, up, table, clock, t, id, includeSoftDeleted, useCache) ==
    LET schema == LoadSchema(t)
        pkColumn == schema.primaryKey[1]
        cacheKey == RecordKey(t, pkColumn, id)
        cached == IF useCache THEN CacheServiceGet(s, up, cacheKey) ELSE Null
        whereConditions == <<<<pkColumn, Scalar(id)>>>>
        stmt == IF copy = "older copy"
                THEN OlderSelectStatement(schema, whereConditions, includeSoftDeleted)
                ELSE SelectStatement(schema, whereConditions, includeSoftDeleted)
        results == Execute(stmt, table, clock)
        found == IF results.rows = {} THEN Null
                  ELSE RowOf(table, CHOOSE r \in results.rows : TRUE)
        put == CacheServiceSet(s, up, cacheKey, found, RecordTTL, <<TableTag(t)>>)
    IN  IF pkColumn \notin schema.columns
        THEN [store |-> s, ret |-> Null, threw |-> TRUE, hit |-> FALSE]
        ELSE IF cached # Null
        THEN [store |-> s, ret |-> cached, threw |-> FALSE, hit |-> TRUE]
        ELSE IF results.error
        THEN [store |-> s, ret |-> Null, threw |-> TRUE, hit |-> FALSE]
        ELSE IF useCache /\ found # Null
        THEN [store |-> put.store, ret |-> IF put.threw THEN Null ELSE found,
              threw |-> put.threw, hit |-> FALSE]
        ELSE [store |-> s, ret |-> found, threw |-> FALSE, hit |-> FALSE]

FindOnly == UNCHANGED <<txVars, sqlVars, built, raceVars, tagsOf, clean, schemaCache, dbData>>

LiveRow == [exists |-> TRUE, email |-> "old", version |-> 0, updated_at |-> 0,
            deleted_at |-> 0]
SoftDeletedRow == [LiveRow EXCEPT !.deleted_at = 1]

FindInit ==
    /\ TxQuiet
    /\ rows \in [Ids -> {LiveRow, SoftDeletedRow}]
    /\ now = 1
    /\ call = [c \in Callers |-> Idle]
    /\ result = [c \in Callers |-> Idle]
    /\ calls = 0
    /\ deleteCalls = [id \in Ids |-> 0]
    /\ firstDelete = [id \in Ids |-> 0]
    /\ defaultDeleted = [id \in Ids |-> FALSE]
    /\ built = Idle
    /\ RaceQuiet
    /\ store = EmptyFn
    /\ tagsOf = EmptyFn
    /\ clean = TRUE
    /\ schemaCache = WarmSchemaCache
    /\ dbData = [t \in Tables |-> 0]
    /\ last = Idle

FindByIdCall(copy, id, includeSoftDeleted, useCache, up) ==
    LET out == FindById(copy, store, up, rows, now, "users", id, includeSoftDeleted,
                        useCache)
    IN  /\ store' = out.store
        /\ last' = [op |-> "findById", copy |-> copy, id |-> id,
                    includeSoftDeleted |-> includeSoftDeleted, useCache |-> useCache,
                    ret |-> out.ret, threw |-> out.threw, hit |-> out.hit]
        /\ FindOnly

FindNext ==
    \E copy \in Copies, id \in Ids, includeSoftDeleted \in Tri, useCache \in BOOLEAN,
       up \in BOOLEAN :
        FindByIdCall(copy, id, includeSoftDeleted, useCache, up)

SpecFind == FindInit /\ [][FindNext]_vars

\* what the SELECT for (id, includeSoftDeleted) matches in the table
Selected(table, clock, id, includeSoftDeleted) ==
    LET schema == LoadSchema("users")
        answer == Execute(OlderSelectStatement(schema, <<<<"id", Scalar(id)>>>>,
                                               includeSoftDeleted), table, clock)
    IN  IF answer.rows = {} THEN Null ELSE RowOf(table, id)

\* C29: a cached findById call returns what the same call without the cache
\* returns, and a call of utils/database.js's findById with the default
\* includeSoftDeleted is never handed a soft-deleted row.
C29_CachedFindByIdRespectsSoftDelete ==
    (last.op = "findById" /\ last.copy = "utils/database.js" /\ ~last.threw) =>
        /\ last.ret = Selected(rows, now, last.id, last.includeSoftDeleted)
        /\ (last.includeSoftDeleted = "null" /\ last.ret # Null) => ~SoftDeleted(last.ret)

(***************************************************************************)
(* Claims about the ON CONFLICT statements (SpecBuild)                     *)
(***************************************************************************)
AssignedColumns(stmt) == {stmt.update[i].col : i \in 1..Len(stmt.update)}

\* C24: upsertRecord takes the table's primary key as conflict columns when
\* none are given, throws before sending any statement when a conflict column
\* is not in the schema, and its DO UPDATE SET assigns no conflict column and
\* no column of excludeFromUpdate.
C24_UpsertConflictAndUpdateSet ==
    built.op = "upsertRecord" =>
        LET schema == LoadSchema(built.table)
            conflict == IF built.conflictColumns.given THEN built.conflictColumns.cols
                        ELSE schema.primaryKey
        IN  /\ (\E i \in 1..Len(conflict) : conflict[i] \notin schema.columns)
                 => (built.out.threw /\ built.out.sent = <<>>)
            /\ built.out.sent # <<>> =>
                 /\ built.out.sent[1].conflict = conflict
                 /\ AssignedColumns(built.out.sent[1])
                       \cap (Range(conflict) \cup Range(built.excludeFromUpdate)) = {}

\* C30: the DO UPDATE SET clause emitted by upsertRecord and by insertRecord
\* with onConflict 'update' assigns no column more than once.
C30_UpdateSetAssignsEachColumnOnce ==
    (built.op \in {"upsertRecord", "insertRecord onConflict"} /\ built.out.sent # <<>>)
        => \A col \in AssignedColumns(built.out.sent[1]) :
              Cardinality({i \in 1..Len(built.out.sent[1].update) :
                              built.out.sent[1].update[i].col = col}) = 1

====
